---- MODULE Spec2Model ----
(***************************************************************************)
(* A model of the S3 Tables MCP server's query path: the SQL policy gate   *)
(* (database.py, models.py), the server-level write switch (server.py),    *)
(* the legacy Athena engine (engines/athena.py), the table-ARN parser      *)
(* (engines/base_engine.py) and the engine manager                         *)
(* (engines/engine_manager.py).                                            *)
(*                                                                         *)
(* Python strings are sequences of one-character strings, so that upper(), *)
(* split() and the substring test `k in s` are computed, not assumed.      *)
(* A SQL text is given as the sequence of its top-level lexical items (the *)
(* tokens sqlparse yields at the top level of a statement, each with its   *)
(* text and its whitespace flag); the text itself is their concatenation.  *)
(***************************************************************************)
EXTENDS Integers, Sequences, FiniteSets, Bags, TLC

VARIABLES
    allow_write,   \* server.py: app.allow_write
    aws_region,    \* does `region_name or os.getenv('AWS_REGION')` give a region
    engines,       \* engine_manager.py: the kinds registered in EngineManager.engines
    pc,            \* the control point of the call in progress
    call,          \* the call in progress: the operation and its arguments
    gate,          \* what validate_read_only_query did in the call in progress
    body,          \* the body a write_operation wrapper guards: entries, arguments, result
    backend,       \* the backend requests made so far, in order
    outcome,       \* what the call returned or raised
    connection,    \* duckdb_engine.py: DuckDBEngine._connection is set
    execution,     \* the query execution an adapter started: its state as polled, its result
    instance,      \* one adapter object shared by several calls: its memo and its registry
    tasks,         \* the calls of execute_query on the shared adapter, each with its position
    running,       \* the task that holds the event loop, NoTask when the loop is free
    world          \* outside the process: environment variables, buckets, the workgroup

vars == <<allow_write, aws_region, engines, pc, call, gate, body, backend, outcome,
          connection, execution, instance, tasks, running, world>>

----------------------------------------------------------------------------
(* Bounds of the model.                                                    *)

\* The number of top-level items of a SQL text.
MaxItems == 3
\* The number of '/'-separated parts of the resource segment of an ARN.
MaxParts == 5

\* The columns and the data rows of a backend result.
MaxCols == 2

MaxRows == 2

\* The polls of one execution that find it still running.
MaxPolls == 2

\* The calls of execute_query made on one shared adapter.
MaxCalls == 3

----------------------------------------------------------------------------
(* Python str operations.                                                  *)

Lower == <<"a","b","c","d","e","f","g","h","i","j","k","l","m",
           "n","o","p","q","r","s","t","u","v","w","x","y","z">>

Upper == <<"A","B","C","D","E","F","G","H","I","J","K","L","M",
           "N","O","P","Q","R","S","T","U","V","W","X","Y","Z">>

\* str.upper() on one character.
UpperChar(c) ==
    IF \E i \in 1..26 : Lower[i] = c
    THEN Upper[CHOOSE i \in 1..26 : Lower[i] = c]
    ELSE c

\* str.upper()
str_upper(s) == [i \in 1..Len(s) |-> UpperChar(s[i])]

\* `k in s` for two strings
str_contains(s, k) ==
    \E i \in 0..(Len(s) - Len(k)) : SubSeq(s, i + 1, i + Len(k)) = k

\* s.split(sep) for a one-character separator: the segments between the
\* separators, empty ones included.
RECURSIVE str_split_from(_, _, _)
str_split_from(s, sep, cur) ==
    IF s = <<>> THEN <<cur>>
    ELSE IF Head(s) = sep
         THEN <<cur>> \o str_split_from(Tail(s), sep, <<>>)
         ELSE str_split_from(Tail(s), sep, Append(cur, Head(s)))

str_split(s, sep) == str_split_from(s, sep, <<>>)

\* sep.join(parts)
RECURSIVE str_join(_, _)
str_join(parts, sep) ==
    IF parts = <<>> THEN <<>>
    ELSE IF Len(parts) = 1 THEN parts[1]
         ELSE parts[1] \o <<sep>> \o str_join(Tail(parts), sep)

----------------------------------------------------------------------------
(* SQL texts.                                                              *)

\* A top-level token of sqlparse: token.value and token.is_whitespace.
Token(v) == [value |-> v, is_whitespace |-> FALSE]

Whitespace == [value |-> <<" ">>, is_whitespace |-> TRUE]

Semicolon == Token(<<";">>)

\* The items the model's SQL texts are made of: keywords in several letter
\* cases, plain words, an identifier that contains a keyword, a parenthesis
\* group (one top-level token whose text holds a nested keyword), the
\* multi-word DDL token of sqlparse, whitespace and the statement separator.
ItemPool ==
    { Token(<<"i","n","s","e","r","t">>),
      Token(<<"D","R","O","P">>),
      Token(<<"M","e","r","g","e">>),
      Token(<<"T","A","B","L","E">>),
      Token(<<"l","o","g","s">>),
      Token(<<"i","n","s","e","r","t","i","o","n","_","l","o","g","s">>),
      Token(<<"(","d","e","l","e","t","e",")">>),
      Token(<<"C","R","E","A","T","E"," ","O","R"," ","R","E","P","L","A","C","E">>),
      Whitespace,
      Semicolon }

RECURSIVE SeqsUpTo(_, _)
SeqsUpTo(S, n) ==
    IF n = 0 THEN { <<>> }
    ELSE LET shorter == SeqsUpTo(S, n - 1)
         IN  shorter \cup { Append(q, x) : q \in { r \in shorter : Len(r) = n - 1 }, x \in S }

\* The SQL texts of the model.
Queries == SeqsUpTo(ItemPool, MaxItems)

\* The text of a query: the str the caller passes.
RECURSIVE sql_text(_)
sql_text(sql) ==
    IF sql = <<>> THEN <<>> ELSE Head(sql).value \o sql_text(Tail(sql))

\* sqlparse.parse(sql): the statements of the text, each the sequence of its
\* top-level tokens; a statement ends with its ';'.
RECURSIVE split_statements(_, _)
split_statements(items, cur) ==
    IF items = <<>> THEN (IF cur = <<>> THEN <<>> ELSE <<cur>>)
    ELSE IF Head(items) = Semicolon
         THEN <<Append(cur, Head(items))>> \o split_statements(Tail(items), <<>>)
         ELSE split_statements(Tail(items), Append(cur, Head(items)))

sqlparse_parse(sql) == split_statements(sql, <<>>)

----------------------------------------------------------------------------
(* What a call produces: a returned value or a raised exception.  A        *)
(* message is its fixed text and the set of values formatted into it.      *)

Message(text, args) == [text |-> text, args |-> args]

NoMessage == Message("", {})

NoValue == [tag |-> "none"]

Returned(v) == [kind |-> "returned", value |-> v, exc |-> "", message |-> NoMessage]

Raised(e, m) == [kind |-> "raised", value |-> NoValue, exc |-> e, message |-> m]

NoOutcome == [kind |-> "none", value |-> NoValue, exc |-> "", message |-> NoMessage]

----------------------------------------------------------------------------
(* database.py: the read-only gate.                                        *)

write_keywords ==
    { <<"I","N","S","E","R","T">>,
      <<"U","P","D","A","T","E">>,
      <<"D","E","L","E","T","E">>,
      <<"C","R","E","A","T","E">>,
      <<"A","L","T","E","R">>,
      <<"D","R","O","P">>,
      <<"T","R","U","N","C","A","T","E">>,
      <<"M","E","R","G","E">>,
      <<"R","E","P","L","A","C","E">>,
      <<"V","A","C","U","U","M">>,
      <<"L","O","A","D">>,
      <<"C","O","P","Y">>,
      <<"W","R","I","T","E">>,
      <<"U","P","S","E","R","T">> }

\* tokens = [token.value.upper() for token in stmt.tokens if not token.is_whitespace]
stmt_tokens(stmt) ==
    LET kept == SelectSeq(stmt, LAMBDA token : ~token.is_whitespace)
    IN  [i \in 1..Len(kept) |-> str_upper(kept[i].value)]

\* A gate that compares the tokens as written, without upper().
contains_write_operation_cased(sql) ==
    LET parsed == sqlparse_parse(sql)
    IN  \E s \in 1..Len(parsed) :
            \E i \in 1..Len(parsed[s]) :
                /\ ~parsed[s][i].is_whitespace
                /\ parsed[s][i].value \in write_keywords

\* A gate that looks for the keywords anywhere in the text of a token.
contains_write_operation_substring(sql) ==
    LET parsed == sqlparse_parse(sql)
    IN  \E s \in 1..Len(parsed) :
            \E i \in 1..Len(stmt_tokens(parsed[s])) :
                \E k \in write_keywords : str_contains(stmt_tokens(parsed[s])[i], k)

\* for stmt in parsed: if any(token in write_keywords for token in tokens): return True
contains_write_operation(sql) ==
    LET parsed == sqlparse_parse(sql)
    IN  \E s \in 1..Len(parsed) :
            \E i \in 1..Len(stmt_tokens(parsed[s])) :
                stmt_tokens(parsed[s])[i] \in write_keywords

ReadOnlyText == "Write operations are not allowed in read-only queries"

\* A gate whose error names the keywords it found.
validate_read_only_query_naming(query) ==
    IF contains_write_operation(query)
    THEN Raised("ValueError",
                Message(ReadOnlyText,
                        LET parsed == sqlparse_parse(query)
                        IN  { k \in write_keywords :
                                \E s \in 1..Len(parsed) :
                                    \E i \in 1..Len(stmt_tokens(parsed[s])) :
                                        stmt_tokens(parsed[s])[i] = k }))
    ELSE Returned([tag |-> "True"])

validate_read_only_query(query) ==
    IF contains_write_operation(query)
    THEN Raised("ValueError", Message(ReadOnlyText, {}))
    ELSE Returned([tag |-> "True"])

----------------------------------------------------------------------------
(* models.py: the validator of QueryRequest.sql_query.                     *)

dangerous_keywords ==
    << <<"D","R","O","P">>,
       <<"D","E","L","E","T","E">>,
       <<"C","R","E","A","T","E">>,
       <<"A","L","T","E","R">>,
       <<"T","R","U","N","C","A","T","E">> >>

DangerousText == "SQL keyword is not allowed. Only SELECT, INSERT, and UPDATE queries are permitted."

\* The field's min_length=1 is checked first; then the first keyword of the
\* list found anywhere in the upper-cased text is refused.  What the try
\* block raises (no statement, a statement type outside SELECT, INSERT,
\* UPDATE) is caught by its own `except Exception: pass`.
validate_sql_query(v) ==
    LET upper_query == str_upper(sql_text(v))
        hits == { k \in 1..Len(dangerous_keywords) :
                    str_contains(upper_query, dangerous_keywords[k]) }
    IN  IF Len(sql_text(v)) < 1
        THEN Raised("ValidationError", Message("string_too_short", {}))
        ELSE IF hits # {}
        THEN Raised("ValueError",
                    Message(DangerousText,
                            {dangerous_keywords[CHOOSE k \in hits : \A j \in hits : k <= j]}))
        ELSE Returned([tag |-> "str", text |-> sql_text(v)])

----------------------------------------------------------------------------
(* engines/base_engine.py: the table-ARN parser.                           *)

ArnFormatText == "Invalid table ARN format: {table_arn}"

ArnResourceText == "Invalid table ARN resource format: {table_arn}. Expected: bucket/bucket-name/table/table-name"

parse_table_arn(table_arn) ==
    LET parts == str_split(table_arn, ":")
    IN  IF Len(parts) < 6
        THEN Raised("ValueError", Message(ArnFormatText, {table_arn}))
        ELSE LET resource_parts == str_split(parts[6], "/")
             IN  IF \/ Len(resource_parts) # 4
                    \/ resource_parts[1] # <<"b","u","c","k","e","t">>
                    \/ resource_parts[3] # <<"t","a","b","l","e">>
                 THEN Raised("ValueError", Message(ArnResourceText, {table_arn}))
                 ELSE Returned([tag |-> "dict",
                                region |-> parts[4],
                                account_id |-> parts[5],
                                bucket_name |-> resource_parts[2],
                                table_name |-> resource_parts[4]])

----------------------------------------------------------------------------
(* The table ARNs of the model: ':'-separated segments, the sixth of them  *)
(* the resource, itself '/'-separated parts.                               *)

STR_ARN == <<"a","r","n">>
STR_AWS == <<"a","w","s">>
STR_S3TABLES == <<"s","3","t","a","b","l","e","s">>
STR_US == <<"u","s">>
STR_EU == <<"e","u">>
STR_ACCOUNT == <<"1","2">>
STR_X == <<"x">>
STR_BUCKET == <<"b","u","c","k","e","t">>
STR_TABLE == <<"t","a","b","l","e">>
STR_B1 == <<"b","1">>

\* The first five segments: a first segment that is or is not 'arn', two regions.
ArnHeads == { <<a, STR_AWS, STR_S3TABLES, r, STR_ACCOUNT>> : a \in {STR_ARN, STR_X}, r \in {STR_US, STR_EU} }

PartPool == { STR_BUCKET, STR_TABLE, STR_B1, <<>> }

\* The resources: one to MaxParts parts.
ArnResources == SeqsUpTo(PartPool, MaxParts) \ { <<>> }

\* An ARN as it is built: its segments and the parts of its resource (none
\* when there are fewer than six segments).
ArnInputs ==
    { [segs |-> SubSeq(h, 1, n), res |-> <<>>] : h \in ArnHeads, n \in 1..5 }
    \cup
    { [segs |-> h \o <<str_join(ps, "/")>> \o extra, res |-> ps] :
        h \in ArnHeads, ps \in ArnResources, extra \in { <<>>, <<STR_X>> } }

----------------------------------------------------------------------------
(* The calls.                                                              *)

NoCall == [op |-> "none", sql |-> <<>>, arn |-> <<>>, segs |-> <<>>, res |-> <<>>,
           preference |-> "auto"]

NoBody == [runs |-> 0, args |-> NoCall, result |-> NoOutcome]

\* A backend result set: the column metadata and the rows, the first of them
\* the header row.
NoNative == [ColumnInfo |-> <<>>, Rows |-> <<>>]

\* No execution started: nothing polled, no second slept, nothing fetched.
NoExecution ==
    [state |-> "none", polls |-> 0, slept |-> 0, fetched |-> FALSE, native |-> NoNative,
     configuration |-> "set"]

\* No adapter object is shared, no call runs on one.
NoInstance == [kind |-> "none"]

NoTasks == <<>>

\* No task holds the event loop.
NoTask == "none"

\* The world the other specifications do not look at.
NoWorld == [application_id |-> FALSE]

\* server.py: the tools guarded by @write_operation that the model calls.
WrappedTools == { "modify_database", "create_table_bucket" }

\* server.py: the tools whose body is `try: ... except Exception as e: return {...}`.
CatchingTools == { "query_database", "modify_database" }

\* The operations that run database._execute_database_query.
DatabaseOps == { "query_database", "modify_database",
                 "query_database_resource", "modify_database_resource" }

\* An entry point that never asks for the gate.
validate_read_only_never(op) == FALSE

\* database.py: query_database_resource passes validate_read_only=True,
\* modify_database_resource passes validate_read_only=False.
validate_read_only(op) == op \in { "query_database", "query_database_resource" }

\* A tool body that lets the exception through.
tool_except_propagating(o) == o

\* server.py: except Exception as e: return {'status': 'error', 'error': str(e)}
tool_except(o) ==
    IF o.kind = "raised"
    THEN Returned([tag |-> "dict", status |-> "error", error |-> o.message])
    ELSE o

\* A wrapper that never refuses.
write_permitted_always(flag) == TRUE

\* server.py, write_operation: `if not app.allow_write: raise ValueError(...)`
write_permitted(flag) == flag

ReadOnlyModeText == "Operation not permitted: Server is configured in read-only mode"

\* The result of the call in progress, as the frames above hand it on: a
\* catching tool turns an exception into an error dict; the write_operation
\* wrapper returns what its body returned.
Finish(r) ==
    LET t == IF call.op \in CatchingTools THEN tool_except(r) ELSE r
    IN  /\ pc' = "done"
        /\ outcome' = t
        /\ body' = IF call.op \in WrappedTools THEN [body EXCEPT !.result = t] ELSE body

----------------------------------------------------------------------------
(* The server and its tools.                                               *)

\* server.py, main(): app.allow_write = args.allow_write
main ==
    /\ pc = "boot"
    /\ \E flag \in BOOLEAN : allow_write' = flag
    /\ pc' = "idle"
    /\ UNCHANGED <<instance, tasks, running, world, connection, execution, aws_region, engines,
                   call, gate, body, backend, outcome>>

\* A tool or a resource function of database.py is called with a SQL text
\* (constants.QUERY_FIELD: min_length=1).
CallDatabase ==
    /\ pc = "idle"
    /\ \E op \in DatabaseOps, q \in Queries \ { <<>> } :
        /\ call' = [NoCall EXCEPT !.op = op, !.sql = q]
        /\ pc' = IF op \in WrappedTools THEN "wrapper" ELSE "region"
    /\ UNCHANGED <<instance, tasks, running, world, connection, execution, allow_write,
                   aws_region, engines, gate, body, backend, outcome>>

\* The tool create_table_bucket is called.
CallCreateTableBucket ==
    /\ pc = "idle"
    /\ call' = [NoCall EXCEPT !.op = "create_table_bucket"]
    /\ pc' = "wrapper"
    /\ UNCHANGED <<instance, tasks, running, world, connection, execution, allow_write,
                   aws_region, engines, gate, body, backend, outcome>>

\* server.py, write_operation.wrapper: the switch, then the body.
WriteOperation ==
    /\ pc = "wrapper"
    /\ IF write_permitted(allow_write)
       THEN /\ body' = [runs |-> body.runs + 1, args |-> call, result |-> NoOutcome]
            /\ pc' = IF call.op = "create_table_bucket" THEN "admin" ELSE "region"
            /\ UNCHANGED outcome
       ELSE /\ outcome' = Raised("ValueError", Message(ReadOnlyModeText, {}))
            /\ pc' = "done"
            /\ UNCHANGED body
    /\ UNCHANGED <<instance, tasks, running, world, connection, execution, allow_write,
                   aws_region, engines, call, gate, backend>>

\* table_buckets.create_table_bucket under @handle_exceptions: one request to
\* S3 Tables; its response, or the error dict of the exception it raised.
CreateTableBucketBody ==
    /\ pc = "admin"
    /\ backend' = Append(backend, [api |-> "s3tables.create_table_bucket", sql |-> <<>>,
                                   by |-> "create_table_bucket", result |-> "sent"])
    /\ \E ok \in BOOLEAN :
        Finish(Returned(IF ok THEN [tag |-> "dict", status |-> "response"]
                              ELSE [tag |-> "dict", status |-> "handled_error"]))
    /\ UNCHANGED <<instance, tasks, running, world, connection, execution, allow_write,
                   aws_region, engines, call, gate>>

----------------------------------------------------------------------------
(* database._execute_database_query, step by step.                         *)

\* How one engine.execute_query of engines/athena.py ends: the request to
\* start the execution raises, the execution ends FAILED (or CANCELLED), or it
\* ends SUCCEEDED and its results are fetched.
AthenaRuns == { "start_failed", "FAILED", "SUCCEEDED" }

SelectOne == << Token(<<"S","E","L","E","C","T">>), Whitespace, Token(<<"1">>) >>

VersionComment == << Token(<<"/","*"," ","a","w","s","l","a","b","s"," ","*","/">>),
                     [value |-> <<"\n">>, is_whitespace |-> TRUE] >>

\* region = region_name or os.getenv('AWS_REGION'); if not region: raise
CheckRegion ==
    /\ pc = "region"
    /\ IF aws_region
       THEN pc' = "engine_init" /\ UNCHANGED <<outcome, body>>
       ELSE Finish(Raised("ValueError",
                          Message("AWS_REGION environment variable must be set", {})))
    /\ UNCHANGED <<instance, tasks, running, world, connection, execution, allow_write,
                   aws_region, engines, call, gate, backend>>

\* engine = AthenaEngine(config): the client is constructed, or
\* _initialize_connection raises ConnectionError.
InitEngine ==
    /\ pc = "engine_init"
    /\ \/ pc' = "probe" /\ UNCHANGED <<outcome, body>>
       \/ Finish(Raised("ConnectionError",
                        Message("Failed to initialize Athena connection: {e}", {})))
    /\ UNCHANGED <<instance, tasks, running, world, connection, execution, allow_write,
                   aws_region, engines, call, gate, backend>>

\* A probe that reports success whatever happened to its query.
test_connection_optimistic(r) == TRUE

\* athena.py, test_connection: try: self.execute_query('SELECT 1'); return True
\*                             except Exception: return False
test_connection(r) == r = "SUCCEEDED"

\* if not engine.test_connection(): raise ConnectionError(...).  The probe
\* is engine.execute_query('SELECT 1'): a query execution started on Athena.
TestConnection ==
    /\ pc = "probe"
    /\ \E r \in AthenaRuns :
        /\ backend' = Append(backend, [api |-> "athena.start_query_execution", sql |-> SelectOne,
                                       by |-> "test_connection", result |-> r])
        /\ IF test_connection(r)
           THEN pc' = "validate" /\ UNCHANGED <<outcome, body>>
           ELSE Finish(Raised("ConnectionError", Message("Failed to connect to Athena", {})))
    /\ UNCHANGED <<instance, tasks, running, world, connection, execution, allow_write,
                   aws_region, engines, call, gate>>

\* if validate_read_only: validate_read_only_query(query)
Validate ==
    /\ pc = "validate"
    /\ IF validate_read_only(call.op)
       THEN LET v == validate_read_only_query(call.sql)
            IN  IF v.kind = "raised"
                THEN gate' = "rejected" /\ Finish(v)
                ELSE gate' = "accepted" /\ pc' = "execute" /\ UNCHANGED <<outcome, body>>
       ELSE pc' = "execute" /\ UNCHANGED <<gate, outcome, body>>
    /\ UNCHANGED <<instance, tasks, running, world, connection, execution, allow_write,
                   aws_region, engines, call, backend>>

\* results = engine.execute_query(query_with_comment); return {'status': 'success', ...}
ExecuteQuery ==
    /\ pc = "execute"
    /\ \E r \in AthenaRuns :
        /\ backend' = Append(backend, [api |-> "athena.start_query_execution",
                                       sql |-> VersionComment \o call.sql,
                                       by |-> "execute_query", result |-> r])
        /\ IF r = "SUCCEEDED"
           THEN Finish(Returned([tag |-> "dict", status |-> "success"]))
           ELSE Finish(Raised("Exception", Message("Error executing query: {e}", {})))
    /\ UNCHANGED <<instance, tasks, running, world, connection, execution, allow_write,
                   aws_region, engines, call, gate>>

----------------------------------------------------------------------------
(* The functions called on their own.                                      *)

\* database.validate_read_only_query(query)
CallValidateReadOnlyQuery ==
    /\ pc = "idle"
    /\ \E q \in Queries :
        /\ call' = [NoCall EXCEPT !.op = "validate_read_only_query", !.sql = q]
        /\ outcome' = validate_read_only_query(q)
    /\ pc' = "done"
    /\ UNCHANGED <<instance, tasks, running, world, connection, execution, allow_write,
                   aws_region, engines, gate, body, backend>>

\* models.QueryRequest(sql_query=...): the field validator runs.
CallQueryRequest ==
    /\ pc = "idle"
    /\ \E q \in Queries :
        /\ call' = [NoCall EXCEPT !.op = "QueryRequest", !.sql = q]
        /\ outcome' = validate_sql_query(q)
    /\ pc' = "done"
    /\ UNCHANGED <<instance, tasks, running, world, connection, execution, allow_write,
                   aws_region, engines, gate, body, backend>>

\* BaseQueryEngine.parse_table_arn(table_arn)
CallParseTableArn ==
    /\ pc = "idle"
    /\ \E a \in ArnInputs :
        /\ call' = [NoCall EXCEPT !.op = "parse_table_arn", !.arn = str_join(a.segs, ":"),
                                  !.segs = a.segs, !.res = a.res]
        /\ outcome' = parse_table_arn(str_join(a.segs, ":"))
    /\ pc' = "done"
    /\ UNCHANGED <<instance, tasks, running, world, connection, execution, allow_write,
                   aws_region, engines, gate, body, backend>>

\* The call is over; the server waits for the next one.
Return ==
    /\ pc = "done"
    /\ pc' = "idle"
    /\ call' = NoCall
    /\ gate' = "not_run"
    /\ body' = NoBody
    /\ backend' = <<>>
    /\ outcome' = NoOutcome
    /\ execution' = NoExecution
    /\ UNCHANGED <<instance, tasks, running, world, connection, allow_write, aws_region,
                   engines>>

----------------------------------------------------------------------------
(* engines/engine_manager.py                                               *)

EngineKinds == { "duckdb", "athena", "spark" }

Preferences == { "auto", "duckdb", "athena", "spark", "glue" }

\* len(sql_query) < 500
SimpleQueryLength == 500

\* A piece of SQL text of 500 characters, none of them in a marker.
LongText == Token([j \in 1..SimpleQueryLength |-> "x"])

\* The SQL texts handed to the manager.
ManagerItemPool ==
    { Token(<<"D","R","O","P">>),
      Token(<<"l","o","g","s">>),
      Token(<<"j","o","i","n">>),
      Token(<<"W","I","T","H">>),
      Token(<<"G","r","o","u","p"," ","B","y">>),
      Whitespace }

\* The texts of 500 characters and more: the long piece, alone or followed
\* by one item.
LongQueries == { <<LongText>> \o q : q \in SeqsUpTo(ManagerItemPool, 1) }

ManagerQueries == (SeqsUpTo(ManagerItemPool, MaxItems) \ { <<>> }) \cup LongQueries

STR_JOIN == <<"J","O","I","N">>
STR_GROUP_BY == <<"G","R","O","U","P"," ","B","Y">>
STR_WINDOW == <<"W","I","N","D","O","W">>
STR_WITH == <<"W","I","T","H">>

\* next(iter(self.engines.keys())): the dict keeps the order of insertion,
\* DUCKDB, ATHENA, SPARK; on an empty dict next() raises StopIteration.
first_engine(registry) ==
    IF "duckdb" \in registry THEN "duckdb"
    ELSE IF "athena" \in registry THEN "athena"
    ELSE IF "spark" \in registry THEN "spark"
    ELSE "StopIteration"

\* A selection that consults the heuristics before the preference.
select_engine_heuristics_first(sql_query, engine_preference) ==
    LET query_upper == str_upper(sql_text(sql_query))
    IN  IF /\ ~str_contains(query_upper, STR_JOIN)
           /\ ~str_contains(query_upper, STR_GROUP_BY)
           /\ Len(sql_text(sql_query)) < SimpleQueryLength
           /\ "duckdb" \in engines
        THEN "duckdb"
        ELSE IF /\ \E keyword \in { STR_JOIN, STR_GROUP_BY, STR_WINDOW, STR_WITH } :
                        str_contains(query_upper, keyword)
                /\ "athena" \in engines
        THEN "athena"
        ELSE IF engine_preference # "auto" /\ engine_preference \in engines
        THEN engine_preference
        ELSE first_engine(engines)

\* A selection that tries the rule for Athena before the rule for DuckDB.
select_engine_athena_first(sql_query, engine_preference) ==
    LET query_upper == str_upper(sql_text(sql_query))
    IN  IF engine_preference # "auto" /\ engine_preference \in engines
        THEN engine_preference
        ELSE IF /\ \E keyword \in { STR_JOIN, STR_GROUP_BY, STR_WINDOW, STR_WITH } :
                        str_contains(query_upper, keyword)
                /\ "athena" \in engines
        THEN "athena"
        ELSE IF /\ ~str_contains(query_upper, STR_JOIN)
                /\ ~str_contains(query_upper, STR_GROUP_BY)
                /\ Len(sql_text(sql_query)) < SimpleQueryLength
                /\ "duckdb" \in engines
        THEN "duckdb"
        ELSE first_engine(engines)

\* A selection whose rule for DuckDB ignores the length of the query.
select_engine_any_length(sql_query, engine_preference) ==
    LET query_upper == str_upper(sql_text(sql_query))
    IN  IF engine_preference # "auto" /\ engine_preference \in engines
        THEN engine_preference
        ELSE IF /\ ~str_contains(query_upper, STR_JOIN)
                /\ ~str_contains(query_upper, STR_GROUP_BY)
                /\ "duckdb" \in engines
        THEN "duckdb"
        ELSE IF /\ \E keyword \in { STR_JOIN, STR_GROUP_BY, STR_WINDOW, STR_WITH } :
                        str_contains(query_upper, keyword)
                /\ "athena" \in engines
        THEN "athena"
        ELSE first_engine(engines)

\* A selection that looks for the markers in the text as it was given.
select_engine_cased(sql_query, engine_preference) ==
    LET query_upper == sql_text(sql_query)
    IN  IF engine_preference # "auto" /\ engine_preference \in engines
        THEN engine_preference
        ELSE IF /\ ~str_contains(query_upper, STR_JOIN)
                /\ ~str_contains(query_upper, STR_GROUP_BY)
                /\ Len(sql_text(sql_query)) < SimpleQueryLength
                /\ "duckdb" \in engines
        THEN "duckdb"
        ELSE IF /\ \E keyword \in { STR_JOIN, STR_GROUP_BY, STR_WINDOW, STR_WITH } :
                        str_contains(query_upper, keyword)
                /\ "athena" \in engines
        THEN "athena"
        ELSE first_engine(engines)

\* EngineManager.select_engine
\* A selection that takes the preference without looking at the registry.
select_engine_preference_unchecked(sql_query, engine_preference) ==
    LET query_upper == str_upper(sql_text(sql_query))
    IN  IF engine_preference # "auto"
        THEN engine_preference
        ELSE IF /\ ~str_contains(query_upper, STR_JOIN)
                /\ ~str_contains(query_upper, STR_GROUP_BY)
                /\ Len(sql_text(sql_query)) < SimpleQueryLength
                /\ "duckdb" \in engines
        THEN "duckdb"
        ELSE IF /\ \E keyword \in { STR_JOIN, STR_GROUP_BY, STR_WINDOW, STR_WITH } :
                        str_contains(query_upper, keyword)
                /\ "athena" \in engines
        THEN "athena"
        ELSE first_engine(engines)

select_engine(sql_query, engine_preference) ==
    LET query_upper == str_upper(sql_text(sql_query))
    IN  IF engine_preference # "auto" /\ engine_preference \in engines
        THEN engine_preference
        ELSE IF /\ ~str_contains(query_upper, STR_JOIN)
                /\ ~str_contains(query_upper, STR_GROUP_BY)
                /\ Len(sql_text(sql_query)) < SimpleQueryLength
                /\ "duckdb" \in engines
        THEN "duckdb"
        ELSE IF /\ \E keyword \in { STR_JOIN, STR_GROUP_BY, STR_WINDOW, STR_WITH } :
                        str_contains(query_upper, keyword)
                /\ "athena" \in engines
        THEN "athena"
        ELSE first_engine(engines)

\* The world of an EngineManager: whether EMR_SERVERLESS_APPLICATION_ID is
\* set, what os.getenv gave for it when the manager was constructed, and the
\* engines whose construction raised.
ManagerWorld(application_id) ==
    [application_id |-> application_id, getenv_at_construction |-> FALSE, raised |-> {}]

\* The engines _initialize_engines tries to construct.
attempted_engines(application_id) ==
    IF application_id THEN EngineKinds ELSE { "duckdb", "athena" }

\* A construction that tries EMR Serverless whatever the environment.
initialize_engines_unconditional(application_id, raised) == EngineKinds \ raised

\* _initialize_engines: self.engines[kind] = Engine(config) inside `try:`, a
\* warning when it raised; SPARK only `if os.getenv('EMR_SERVERLESS_APPLICATION_ID')`.
initialize_engines(application_id, raised) == attempted_engines(application_id) \ raised

\* EngineManager(): __init__ sets self.engines = {} and calls _initialize_engines.
EngineManagerInit ==
    /\ pc = "boot"
    /\ \E raised \in SUBSET attempted_engines(world.application_id) :
        /\ engines' = initialize_engines(world.application_id, raised)
        /\ world' = [world EXCEPT !.getenv_at_construction = world.application_id,
                                  !.raised = raised]
    /\ pc' = "idle"
    /\ UNCHANGED <<instance, tasks, running, connection, execution, allow_write, aws_region,
                   call, gate, body, backend, outcome>>

\* The environment variable is set while the manager lives.
ManagerEnvironment ==
    /\ pc = "idle"
    /\ ~world.application_id
    /\ world' = [world EXCEPT !.application_id = TRUE]
    /\ UNCHANGED <<instance, tasks, running, connection, execution, allow_write, aws_region,
                   engines, pc, call, gate, body, backend, outcome>>

\* QueryResult(status='error', message=f'Engine {selected_engine.value} is not available')
EngineNotAvailable ==
    [tag |-> "QueryResult", status |-> "error",
     message |-> "Engine {selected_engine} is not available"]

\* EngineManager.execute_query: select, then hand the SQL to the adapter.
ManagerExecuteQuery ==
    /\ pc = "idle"
    /\ \E q \in ManagerQueries, p \in Preferences :
        LET selected_engine == select_engine(q, p)
        IN  /\ call' = [NoCall EXCEPT !.op = "EngineManager.execute_query", !.sql = q,
                                      !.preference = p]
            /\ IF selected_engine = "StopIteration"
               THEN /\ outcome' = Raised("StopIteration", NoMessage)
                    /\ UNCHANGED backend
               ELSE IF selected_engine \notin engines
               THEN /\ outcome' = Returned(EngineNotAvailable)
                    /\ UNCHANGED backend
               ELSE \E r \in { "success", "error" } :
                    /\ backend' = Append(backend, [api |-> "engine.execute_query", sql |-> q,
                                                   by |-> selected_engine, result |-> r])
                    /\ outcome' = Returned([tag |-> "QueryResult", status |-> r,
                                            message |-> "the adapter's"])
    /\ pc' = "done"
    /\ UNCHANGED <<instance, tasks, running, world, connection, execution, allow_write,
                   aws_region, engines, gate, body>>

\* EngineManager.test_engines: results[engine_type] = await
\* engine.test_connection() for every item of self.engines.
ManagerTestEngines ==
    /\ pc = "idle"
    /\ call' = [NoCall EXCEPT !.op = "EngineManager.test_engines"]
    /\ \E results \in [engines -> BOOLEAN] :
          outcome' = Returned([tag |-> "map", results |-> results])
    /\ pc' = "done"
    /\ UNCHANGED <<instance, tasks, running, world, connection, execution, allow_write,
                   aws_region, engines, gate, body, backend>>

----------------------------------------------------------------------------
(* engines/: the adapters and the results they build.                      *)

\* The legacy engine of engines/athena.py and the three adapters of the
\* engine layer.
LegacyEngine == "athena.AthenaEngine"

Adapters == { LegacyEngine, "AthenaEngine", "DuckDBEngine", "EMRServerlessEngine" }

\* execute_query(table_arn, sql_query, limit): the adapters that take a table ARN.
ArnAdapters == Adapters \ { LegacyEngine }

\* An Optional value of models.QueryResult.
None == [present |-> FALSE]

Some(v) == [present |-> TRUE, value |-> v]

\* QueryResult(status='success', rows_returned=..., data=..., result_schema=...)
QueryResultSuccess(engine, rows_returned, data, result_schema) ==
    [tag |-> "QueryResult", status |-> "success", message |-> None,
     rows_returned |-> Some(rows_returned), data |-> Some(data),
     result_schema |-> Some(result_schema), engine_used |-> engine]

\* QueryResult(status='error', message=..., engine_used=...)
QueryResultError(engine, message) ==
    [tag |-> "QueryResult", status |-> "error", message |-> Some(message),
     rows_returned |-> None, data |-> None, result_schema |-> None, engine_used |-> engine]

\* The cell of a row that carries no VarCharValue (a NULL).
NoVarChar == "<no VarCharValue>"

Cells == { "1", NoVarChar }

ColumnNames == { "id", "name" }

\* The rows of as many cells as the result has columns.
NativeRows(n) == [1..n -> Cells]

\* The header row of a result set: the names of the columns as cells.
HeaderRow(h) == h

\* The rows of any number of cells: get_query_results answers with a list of
\* cells for each row, which the engines index by position.
RaggedRows == UNION { NativeRows(n) : n \in 0..MaxCols }

\* The data rows of a result set: none, or up to MaxRows rows of one shape.
DataRows(rows) ==
    { <<>> } \cup UNION { { [i \in 1..m |-> row] : row \in rows } : m \in 1..MaxRows }

\* The data rows a backend can answer with.  DuckDB: fetchall() gives tuples of
\* one value for each column of conn.description.  Athena: ResultSet.Rows,
\* each row with its own list of cells.
RowsOf(adapter, h) == IF adapter = "DuckDBEngine" THEN NativeRows(Len(h)) ELSE RaggedRows

\* What a backend can answer to a request for the results of a query: up to
\* MaxCols columns, whose names may repeat, and up to MaxRows data rows after
\* the header row; or column metadata with no row at all.
NativeResults(adapter) ==
    UNION { { [ColumnInfo |-> h, Rows |-> <<HeaderRow(h)>> \o d] :
                d \in DataRows(RowsOf(adapter, h)) }
            \cup { [ColumnInfo |-> h, Rows |-> <<>>] } :
            h \in SeqsUpTo(ColumnNames, MaxCols) }

\* row['Data'][i].get('VarCharValue', '')
var_char_value(cell) == IF cell = NoVarChar THEN "" ELSE cell

\* A Python dict built by assigning values[i] to the key keys[i], i in order:
\* a later assignment to the same key replaces the earlier one.
dict_of(keys, values) ==
    [k \in { keys[i] : i \in 1..Len(keys) } |->
        values[CHOOSE i \in 1..Len(keys) :
                   keys[i] = k /\ \A j \in 1..Len(keys) : keys[j] = k => j <= i]]

\* athena_engine.py: row_data = {}; for i, col in enumerate(columns):
\*                       row_data[col] = row['Data'][i].get('VarCharValue', '')
athena_engine_row(columns, row) ==
    dict_of(columns, [i \in 1..Len(columns) |-> var_char_value(row[i])])

\* A result that counts the header row among the rows returned.
athena_engine_result_counting_header(results) ==
    LET rows == results.Rows
    IN  IF rows = <<>>
        THEN Returned(QueryResultSuccess("athena", 0, <<>>, [columns |-> Some(<<>>)]))
        ELSE LET columns == rows[1]
                 data == [r \in 1..(Len(rows) - 1) |-> athena_engine_row(columns, rows[r + 1])]
             IN  Returned(QueryResultSuccess("athena", Len(rows), data, [columns |-> Some(columns)]))

\* athena_engine.py, execute_query: the results parsed into a QueryResult.  A
\* row with fewer cells than the header raises IndexError.
athena_engine_result(results) ==
    LET rows == results.Rows
    IN  IF rows = <<>>
        THEN Returned(QueryResultSuccess("athena", 0, <<>>, [columns |-> Some(<<>>)]))
        ELSE LET columns == rows[1]
             IN  IF \E r \in 2..Len(rows) : Len(rows[r]) < Len(columns)
                 THEN Raised("IndexError", Message("list index out of range", {}))
                 ELSE LET data == [r \in 1..(Len(rows) - 1) |->
                                      athena_engine_row(columns, rows[r + 1])]
                      IN  Returned(QueryResultSuccess("athena", Len(data), data,
                                                      [columns |-> Some(columns)]))

\* duckdb_engine.py: columns = [desc[0] for desc in conn.description];
\*                   data = [dict(zip(columns, row)) for row in result]
duckdb_engine_result(results) ==
    LET columns == results.ColumnInfo
        result == IF results.Rows = <<>> THEN <<>> ELSE Tail(results.Rows)
        zipped(row) == IF Len(row) < Len(columns) THEN Len(row) ELSE Len(columns)
        data == [r \in 1..Len(result) |->
                    dict_of(SubSeq(columns, 1, zipped(result[r])),
                            SubSeq(result[r], 1, zipped(result[r])))]
    IN  Returned(QueryResultSuccess("duckdb", Len(data), data, [columns |-> Some(columns)]))

\* emr_engine.py: the job's output is not read; 'For now, return a mock
\* successful result', with result_schema={}.
emr_engine_result ==
    Returned([QueryResultSuccess("spark", 0, <<>>, [columns |-> None]) EXCEPT
                 !.message = Some(Message("Query executed successfully on EMR Serverless", {}))])

\* athena.py, execute_query: 'Process results'.
legacy_result(results) ==
    IF results.Rows = <<>>
    THEN Returned([tag |-> "dict", columns |-> <<>>, rows |-> <<>>])
    ELSE Returned([tag |-> "dict",
                   columns |-> results.ColumnInfo,
                   rows |-> [r \in 1..(Len(results.Rows) - 1) |->
                                [i \in 1..Len(results.Rows[r + 1]) |->
                                    var_char_value(results.Rows[r + 1][i])]]])

\* The SQL text handed to an adapter.
SelectFromTable ==
    << Token(<<"S","E","L","E","C","T">>), Whitespace, Token(<<"*">>), Whitespace,
       Token(<<"F","R","O","M">>), Whitespace, Token(<<"t","a","b","l","e">>) >>

\* The table ARNs handed to an adapter: a well-formed one, one with three
\* segments, one whose resource names no table.
AdapterArns ==
    LET h == <<STR_ARN, STR_AWS, STR_S3TABLES, STR_US, STR_ACCOUNT>>
    IN  { [segs |-> h \o <<str_join(ps, "/")>>, res |-> ps] :
            ps \in { <<STR_BUCKET, STR_B1, STR_TABLE, STR_B1>>, <<STR_BUCKET, STR_B1>> } }
        \cup { [segs |-> SubSeq(h, 1, 3), res |-> <<>>] }

\* One request to a backend, as the log of requests keeps it.
Request(api, result) == [api |-> api, sql |-> <<>>, by |-> call.op, result |-> result]

\* except Exception as e: each adapter of the engine layer returns
\* QueryResult(status='error', message=f'... execution failed: {str(e)}'); the
\* legacy engine raises Exception(f'Error executing query: {str(e)}').
adapter_except(adapter, e) ==
    IF adapter = LegacyEngine
    THEN Raised("Exception", Message("Error executing query: {e}", {e.message.text}))
    ELSE Returned(QueryResultError(
            CASE adapter = "AthenaEngine" -> "athena"
              [] adapter = "DuckDBEngine" -> "duckdb"
              [] OTHER -> "spark",
            Message(CASE adapter = "AthenaEngine" -> "Athena execution failed: {e}"
                      [] adapter = "DuckDBEngine" -> "DuckDB execution failed: {e}"
                      [] OTHER -> "EMR Serverless execution failed: {e}",
                    {e.message.text})))

\* The exceptions of the backend libraries.
ClientError(api) == Raised("ClientError", Message("An error occurred when calling {api}", {api}))

\* What a poll can find.  Athena: get_query_execution; EMR Serverless: get_job_run.
PollStates(adapter) ==
    IF adapter = "EMRServerlessEngine"
    THEN { "RUNNING", "SUCCESS", "FAILED", "CANCELLED" }
    ELSE { "RUNNING", "SUCCEEDED", "FAILED", "CANCELLED" }

\* A loop that is left at the first poll, whatever it found.
poll_terminal_eager(adapter, state) == TRUE

\* The poll loops: `if status in ['SUCCEEDED', 'FAILED', 'CANCELLED']: break`
\* (both Athena engines); `if state == 'SUCCESS': break / elif state in
\* ['FAILED', 'CANCELLED']: raise` (EMR Serverless).
poll_terminal(adapter, state) ==
    IF adapter = "EMRServerlessEngine"
    THEN state \in { "SUCCESS", "FAILED", "CANCELLED" }
    ELSE state \in { "SUCCEEDED", "FAILED", "CANCELLED" }

\* After the loop: `if status != 'SUCCEEDED': raise` (AthenaEngine);
\* `if state == 'FAILED': raise`, `if state == 'CANCELLED': raise` (legacy).
poll_succeeded(adapter, state) ==
    CASE adapter = "EMRServerlessEngine" -> state = "SUCCESS"
      [] adapter = "AthenaEngine" -> state = "SUCCEEDED"
      [] OTHER -> state # "FAILED" /\ state # "CANCELLED"

\* The exception a failed execution ends in.
poll_failure(adapter, state) ==
    CASE adapter = "EMRServerlessEngine" ->
            Raised("Exception", Message("EMR Serverless job failed: {error_msg}", {state}))
      [] adapter = "AthenaEngine" ->
            Raised("Exception", Message("Athena query failed with status: {status}", {state}))
      [] OTHER ->
            IF state = "FAILED"
            THEN Raised("Exception", Message("Query failed: {error_message}", {state}))
            ELSE Raised("Exception", Message("Query was cancelled", {}))

\* What an EMR Serverless call finds configured: self.config.application_id
\* and os.getenv('EMR_SERVERLESS_JOB_ROLE_ARN'), both, or one of them missing.
Configurations(adapter) ==
    IF adapter = "EMRServerlessEngine"
    THEN { "set", "no_application_id", "no_job_role_arn" }
    ELSE { "set" }

\* An adapter's execute_query is called.
CallAdapter ==
    /\ pc = "idle"
    /\ \E adapter \in Adapters :
        /\ \/ /\ adapter = LegacyEngine
              /\ call' = [NoCall EXCEPT !.op = adapter, !.sql = SelectFromTable]
           \/ /\ adapter \in ArnAdapters
              /\ \E a \in AdapterArns :
                   call' = [NoCall EXCEPT !.op = adapter, !.sql = SelectFromTable,
                                          !.arn = str_join(a.segs, ":"),
                                          !.segs = a.segs, !.res = a.res]
        /\ \E c \in Configurations(adapter) :
              execution' = [NoExecution EXCEPT !.configuration = c]
    /\ pc' = "adapter_begin"
    /\ UNCHANGED <<instance, tasks, running, world, connection, allow_write, aws_region,
                   engines, gate, body, backend, outcome>>

\* The first statements of execute_query.  DuckDBEngine: conn = await
\* self._get_connection(), which on a fresh engine connects, sets the
\* directories, installs and loads the extensions and creates the secret; the
\* Athena and EMR adapters construct their clients, which sends nothing.  Then
\* table_info = self.parse_table_arn(table_arn).
AdapterBegin ==
    /\ pc = "adapter_begin"
    /\ LET connects == call.op = "DuckDBEngine" /\ ~connection
       IN  \E setup \in IF connects THEN { "ok", "failed" } ELSE { "ok" } :
            /\ connection' = (connection \/ connects)
            /\ backend' = IF ~connects THEN backend
                          ELSE IF setup = "ok"
                          THEN backend \o << Request("duckdb.connect", "ok"),
                                             Request("duckdb.install_extensions", "ok"),
                                             Request("duckdb.create_secret", "ok") >>
                          ELSE backend \o << Request("duckdb.connect", "ok"),
                                             Request("duckdb.install_extensions", "failed") >>
            /\ IF setup = "failed"
               THEN Finish(adapter_except(call.op,
                        Raised("IOException", Message("Failed to install extension", {}))))
               ELSE IF call.op \in ArnAdapters /\ parse_table_arn(call.arn).kind = "raised"
               THEN Finish(adapter_except(call.op, parse_table_arn(call.arn)))
               ELSE pc' = "adapter_submit" /\ UNCHANGED <<outcome, body>>
    /\ UNCHANGED <<instance, tasks, running, world, execution, allow_write, aws_region,
                   engines, call, gate>>

\* The requests an adapter makes up to the start of the execution.
SubmitRequests(adapter) ==
    CASE adapter = "AthenaEngine" ->
            << "s3.head_bucket", "athena.get_work_group", "s3tables.list_tables",
               "s3tables.get_table", "athena.start_query_execution" >>
      [] adapter = "DuckDBEngine" -> << "s3tables.list_tables", "duckdb.attach" >>
      [] adapter = "EMRServerlessEngine" ->
            << "s3.create_bucket", "s3.put_object", "emr-serverless.start_job_run" >>
      [] OTHER -> << "athena.start_query_execution" >>

\* The requests whose exception the adapter catches and goes on from:
\* _ensure_result_location, _configure_workgroup_result_location and the
\* `try:` around get_table log a warning (AthenaEngine); `except
\* BucketAlreadyExists: pass` (EMR Serverless).
CaughtRequests(adapter) ==
    CASE adapter = "AthenaEngine" ->
            { "s3.head_bucket", "athena.get_work_group", "s3tables.get_table" }
      [] adapter = "EMRServerlessEngine" -> { "s3.create_bucket" }
      [] OTHER -> {}

\* The requests none of whose exceptions leaves the adapter's helper.
AlwaysCaught(adapter) == IF adapter = "AthenaEngine" THEN CaughtRequests(adapter) ELSE {}

\* emr_engine.py, after the script is uploaded: `if not application_id: raise
\* ValueError(...)`, `if not job_role_arn: raise ValueError(...)`.
configuration_error(configuration) ==
    IF configuration = "no_application_id"
    THEN Raised("ValueError", Message("EMR Serverless application ID not configured", {}))
    ELSE Raised("ValueError",
                Message("EMR_SERVERLESS_JOB_ROLE_ARN environment variable not set", {}))

\* The requests made before the configuration is looked at: all of them when
\* it is complete, those before start_job_run when it is not.
requests_before_check(adapter, configuration) ==
    IF configuration = "set" THEN SubmitRequests(adapter)
    ELSE SubSeq(SubmitRequests(adapter), 1, Len(SubmitRequests(adapter)) - 1)

\* The table is looked up, the query rewritten and the execution started
\* (DuckDB: the bucket attached; EMR Serverless: the script uploaded, the
\* configuration checked, the job started); a request that raises ends the
\* call unless the adapter catches its exception.
AdapterSubmit ==
    /\ pc = "adapter_submit"
    /\ LET requests == requests_before_check(call.op, execution.configuration)
       IN  \E sent \in 1..Len(requests), ok \in BOOLEAN :
           \E caught \in SUBSET { i \in 1..sent : requests[i] \in CaughtRequests(call.op) } :
            /\ ok => sent = Len(requests)
            /\ ~ok => sent \notin caught /\ requests[sent] \notin AlwaysCaught(call.op)
            /\ backend' = backend \o
                    [i \in 1..sent |->
                        Request(requests[i],
                                IF i \in caught \/ (i = sent /\ ~ok) THEN "failed" ELSE "ok")]
            /\ IF ~ok
               THEN /\ Finish(adapter_except(call.op, ClientError(requests[sent])))
                    /\ UNCHANGED execution
               ELSE IF execution.configuration # "set"
               THEN /\ Finish(adapter_except(call.op,
                                             configuration_error(execution.configuration)))
                    /\ UNCHANGED execution
               ELSE /\ UNCHANGED <<outcome, body>>
                    /\ IF call.op = "DuckDBEngine"
                       THEN pc' = "adapter_fetch" /\ UNCHANGED execution
                       ELSE /\ pc' = "adapter_poll"
                            /\ execution' = [execution EXCEPT !.state = "SUBMITTED"]
    /\ UNCHANGED <<instance, tasks, running, world, connection, allow_write, aws_region,
                   engines, call, gate>>

PollApi(adapter) ==
    IF adapter = "EMRServerlessEngine" THEN "emr-serverless.get_job_run"
    ELSE "athena.get_query_execution"

\* The two intervals the other way round.
poll_interval_swapped(adapter) == IF adapter = "EMRServerlessEngine" THEN 1 ELSE 10

\* The seconds slept between two polls: time.sleep(1), asyncio.sleep(1)
\* (Athena); asyncio.sleep(10) (EMR Serverless).
poll_interval(adapter) == IF adapter = "EMRServerlessEngine" THEN 10 ELSE 1

\* One turn of `while True:`: the state of the execution is read; the loop
\* sleeps and goes round, or is left for the statements after it.
AdapterPoll ==
    /\ pc = "adapter_poll"
    /\ \E found \in PollStates(call.op) \cup { "request_failed" } :
        /\ found = "RUNNING" => execution.polls < MaxPolls
        /\ backend' = Append(backend, Request(PollApi(call.op), found))
        /\ IF found = "request_failed"
           THEN /\ Finish(adapter_except(call.op, ClientError(PollApi(call.op))))
                /\ UNCHANGED execution
           ELSE /\ execution' = [execution EXCEPT
                                    !.state = found,
                                    !.polls = IF found = "RUNNING" THEN @ + 1 ELSE @,
                                    !.slept = IF poll_terminal(call.op, found) THEN @
                                              ELSE @ + poll_interval(call.op)]
                /\ IF ~poll_terminal(call.op, found)
                   THEN UNCHANGED <<pc, outcome, body>>  \* sleeps, then polls again
                   ELSE IF ~poll_succeeded(call.op, found)
                   THEN Finish(adapter_except(call.op, poll_failure(call.op, found)))
                   ELSE IF call.op = "EMRServerlessEngine"
                   THEN Finish(emr_engine_result)
                   ELSE pc' = "adapter_fetch" /\ UNCHANGED <<outcome, body>>
    /\ UNCHANGED <<instance, tasks, running, world, connection, allow_write, aws_region,
                   engines, call, gate>>

FetchApi(adapter) ==
    IF adapter = "DuckDBEngine" THEN "duckdb.execute" ELSE "athena.get_query_results"

\* The results are fetched (DuckDB: the query is run and its rows fetched)
\* and turned into the adapter's result.
AdapterFetch ==
    /\ pc = "adapter_fetch"
    /\ \E ok \in BOOLEAN :
        \E results \in IF ok THEN NativeResults(call.op) ELSE { NoNative } :
            /\ backend' = Append(backend, Request(FetchApi(call.op), IF ok THEN "ok" ELSE "failed"))
            /\ execution' = [execution EXCEPT !.fetched = ok, !.native = results]
            /\ LET r == IF ~ok THEN ClientError(FetchApi(call.op))
                        ELSE CASE call.op = "AthenaEngine" -> athena_engine_result(results)
                               [] call.op = "DuckDBEngine" -> duckdb_engine_result(results)
                               [] OTHER -> legacy_result(results)
               IN  IF r.kind = "raised"
                   THEN Finish(adapter_except(call.op, r))
                   ELSE Finish(r)
    /\ UNCHANGED <<instance, tasks, running, world, connection, allow_write, aws_region,
                   engines, call, gate>>

----------------------------------------------------------------------------
(* The specifications.                                                     *)

\* The process before main(): nothing called, the write switch off.
Init ==
    /\ allow_write = FALSE
    /\ aws_region \in BOOLEAN
    /\ engines = {}
    /\ pc = "boot"
    /\ call = NoCall
    /\ gate = "not_run"
    /\ body = NoBody
    /\ backend = <<>>
    /\ outcome = NoOutcome
    /\ connection = FALSE
    /\ execution = NoExecution
    /\ instance = NoInstance
    /\ tasks = NoTasks
    /\ running = NoTask
    /\ world = NoWorld

\* The server: main(), then tool and resource calls, one at a time.
Next ==
    \/ main
    \/ CallDatabase
    \/ CallCreateTableBucket
    \/ WriteOperation
    \/ CreateTableBucketBody
    \/ CheckRegion
    \/ InitEngine
    \/ TestConnection
    \/ Validate
    \/ ExecuteQuery
    \/ CallQueryRequest
    \/ Return

Spec == Init /\ [][Next]_vars

\* A state in which a function can be called on its own.
InitIdle ==
    /\ allow_write = FALSE
    /\ aws_region = FALSE
    /\ engines = {}
    /\ pc = "idle"
    /\ call = NoCall
    /\ gate = "not_run"
    /\ body = NoBody
    /\ backend = <<>>
    /\ outcome = NoOutcome
    /\ connection = FALSE
    /\ execution = NoExecution
    /\ instance = NoInstance
    /\ tasks = NoTasks
    /\ running = NoTask
    /\ world = NoWorld

\* The gate functions applied to every SQL text of the model.
NextGate ==
    \/ CallValidateReadOnlyQuery
    \/ CallQueryRequest
    \/ Return

SpecGate == InitIdle /\ [][NextGate]_vars

\* parse_table_arn applied to every ARN of the model.
NextArn ==
    \/ CallParseTableArn
    \/ Return

SpecArn == InitIdle /\ [][NextArn]_vars

\* The process before an EngineManager is constructed.
InitManager ==
    /\ allow_write = FALSE
    /\ aws_region = FALSE
    /\ engines = {}
    /\ pc = "boot"
    /\ call = NoCall
    /\ gate = "not_run"
    /\ body = NoBody
    /\ backend = <<>>
    /\ outcome = NoOutcome
    /\ connection = FALSE
    /\ execution = NoExecution
    /\ instance = NoInstance
    /\ tasks = NoTasks
    /\ running = NoTask
    /\ world \in { ManagerWorld(application_id) : application_id \in BOOLEAN }

\* An EngineManager and the calls of its execute_query.
NextManager ==
    \/ EngineManagerInit
    \/ ManagerEnvironment
    \/ ManagerExecuteQuery
    \/ ManagerTestEngines
    \/ Return

SpecManager == InitManager /\ [][NextManager]_vars

\* The adapters, one call of execute_query at a time.
NextEngine ==
    \/ CallAdapter
    \/ AdapterBegin
    \/ AdapterSubmit
    \/ AdapterPoll
    \/ AdapterFetch
    \/ Return

SpecEngine == InitIdle /\ [][NextEngine]_vars

----------------------------------------------------------------------------
(* One adapter object shared by several calls of execute_query: the memo   *)
(* of AthenaEngine._ensure_result_location and the registry of             *)
(* DuckDBEngine._attach_s3_tables_database.                                 *)

\* The calls that can be in flight together on the event loop.
Tasks == { "first", "second" }

\* What parse_table_arn gives for the table ARNs of the calls: two buckets
\* whose names differ in '-' and '_' only, one name in two regions and
\* accounts, and a bucket of another name.
TableInfos ==
    { [region |-> "us", account_id |-> "12", bucket_name |-> <<"a", "-", "b">>],
      [region |-> "us", account_id |-> "12", bucket_name |-> <<"a", "_", "b">>],
      [region |-> "eu", account_id |-> "34", bucket_name |-> <<"a", "-", "b">>],
      [region |-> "us", account_id |-> "12", bucket_name |-> <<"c">>] }

NoTableInfo == [region |-> "", account_id |-> "", bucket_name |-> <<>>]

\* f"arn:aws:s3tables:{region}:{account_id}:bucket/{bucket_name}"
table_bucket_arn(table_info) ==
    <<"arn", "aws", "s3tables", table_info.region, table_info.account_id,
      <<"bucket/">> \o table_info.bucket_name>>

\* str.replace('-', '_')
str_replace_dash(s) == [i \in 1..Len(s) |-> IF s[i] = "-" THEN "_" ELSE s[i]]

\* f"s3tables_{table_info['bucket_name'].replace('-', '_')}"
db_name(table_info) == <<"s3tables_">> \o str_replace_dash(table_info.bucket_name)

\* f"s3://aws-athena-query-results-{account_id}-{region}/"
default_location(account_id, region) ==
    <<"s3://aws-athena-query-results-", account_id, "-", region, "/">>

\* AthenaEngine.__init__ and DuckDBEngine.__init__: nothing memoized, no
\* connection, nothing attached.
NewInstance(kind) ==
    [kind |-> kind, result_location_configured |-> FALSE, result_location |-> None,
     connection |-> FALSE, s3_tables_attached |-> <<>>]

\* A task with no call in progress.
IdleTask ==
    [pc |-> "idle", table_info |-> NoTableInfo, sent |-> <<>>, result_location |-> None,
     polls |-> 0, status |-> "none"]

\* Outside the adapter: the calls begun so far, the S3 buckets that exist,
\* the workgroup's OutputLocation, the databases attached to the DuckDB
\* connection, and the bag of the requests that took effect.
NewWorld ==
    [calls |-> 0, buckets |-> {}, workgroup |-> None, catalog |-> {}, effects |-> EmptyBag]

\* A coroutine that any statement can be preempted in.
suspends_preemptive(point) == TRUE

\* The places where a coroutine hands the event loop back: the await of the
\* analytics manager, `await asyncio.sleep(1)`, and its return. boto3 and
\* DuckDB calls block, and the adapters' own coroutines never suspend.
suspends(point) == point \in { "analytics_manager", "asyncio.sleep", "return" }

\* A memo that is never trusted.
memo_never(configured, result_location) == FALSE

\* `if self._result_location_configured and self.config.result_location:`
memo_valid(configured, result_location) == configured /\ result_location.present

\* An ATTACH for every query.
needs_attach_always(registry, arn) == TRUE

\* `if table_bucket_arn not in self._s3_tables_attached:`
needs_attach(registry, arn) == arn \notin DOMAIN registry

\* A registry that records the ARN whatever ATTACH did.
attach_recorded_always(result) == TRUE

\* `self._s3_tables_attached[table_bucket_arn] = db_name` is the statement
\* after conn.execute(attach_sql): it is reached only if that did not raise.
attach_recorded(result) == result = "ok"

\* d[key] = value
dict_set(d, key, value) ==
    [k \in DOMAIN d \cup { key } |-> IF k = key THEN value ELSE d[k]]

\* s3_client.head_bucket: 200 or a ClientError with code 403 for a bucket
\* that exists, a ClientError with code 404 or 403 for one that does not,
\* or an exception that is no ClientError.
head_bucket(buckets, bucket) ==
    IF bucket \in buckets THEN { "200", "403", "error" } ELSE { "404", "403", "error" }

\* conn.execute(attach_sql): DuckDB refuses an ATTACH whose alias names a
\* database of the connection; otherwise it attaches or fails.
duckdb_attach(catalog, alias) ==
    IF \E database \in catalog : database.db_name = alias
    THEN { "error" }
    ELSE { "ok", "error" }

Sent(api, arg, result) == [api |-> api, arg |-> arg, result |-> result]

Effect(api, arg) == SetToBag({ [api |-> api, arg |-> arg] })

\* The task may take its next step: it holds the event loop, or the loop is free.
Scheduled(t) == running \in { NoTask, t }

\* After a step at `point` the task keeps the loop unless it suspended there.
Yield(t, point) == running' = IF suspends(point) THEN NoTask ELSE t

\* asyncio starts the coroutine of a call when the loop is free.
BeginCall(t) ==
    /\ tasks[t].pc = "idle"
    /\ running = NoTask
    /\ world.calls < MaxCalls
    /\ \E table_info \in TableInfos :
        tasks' = [tasks EXCEPT ![t] =
                    [IdleTask EXCEPT !.table_info = table_info,
                                     !.pc = IF instance.kind = "AthenaEngine"
                                            THEN "ensure_result_location"
                                            ELSE "get_connection"]]
    /\ world' = [world EXCEPT !.calls = @ + 1]
    /\ Yield(t, "statement")
    /\ UNCHANGED <<instance, connection, execution, allow_write, aws_region, engines, pc,
                   call, gate, body, backend, outcome>>

\* The call's _ensure_result_location ends without the memo: the handler of
\* line 131 returns the default location of the call's account and region.
EnsureFailed(task) ==
    [task EXCEPT !.pc = "lookup",
                 !.result_location =
                    Some(default_location(task.table_info.account_id, task.table_info.region))]

\* _ensure_result_location, its first statement: the memo.
EnsureResultLocation(t) ==
    /\ tasks[t].pc = "ensure_result_location"
    /\ Scheduled(t)
    /\ tasks' = [tasks EXCEPT ![t] =
                    IF memo_valid(instance.result_location_configured, instance.result_location)
                    THEN [@ EXCEPT !.pc = "lookup", !.result_location = instance.result_location]
                    ELSE [@ EXCEPT !.pc = "head_bucket"]]
    /\ Yield(t, "statement")
    /\ UNCHANGED <<instance, world, connection, execution, allow_write, aws_region, engines,
                   pc, call, gate, body, backend, outcome>>

\* _ensure_result_location: s3_client.head_bucket and what follows from its answer.
HeadBucket(t) ==
    /\ tasks[t].pc = "head_bucket"
    /\ Scheduled(t)
    /\ LET task == tasks[t]
           result_location ==
               default_location(task.table_info.account_id, task.table_info.region)
       IN  \E result \in head_bucket(world.buckets, result_location) :
             LET asked == [task EXCEPT !.sent =
                             Append(@, Sent("s3.head_bucket", result_location, result))]
             IN  tasks' = [tasks EXCEPT ![t] =
                             CASE result = "404" -> [asked EXCEPT !.pc = "create_bucket"]
                               [] result = "error" -> EnsureFailed(asked)
                               [] OTHER -> [asked EXCEPT !.pc = "configure_workgroup"]]
    /\ Yield(t, "statement")
    /\ UNCHANGED <<instance, world, connection, execution, allow_write, aws_region, engines,
                   pc, call, gate, body, backend, outcome>>

\* _ensure_result_location: create_bucket, put_bucket_versioning and
\* put_bucket_lifecycle_configuration, whose failure alone is caught.
CreateBucket(t) ==
    /\ tasks[t].pc = "create_bucket"
    /\ Scheduled(t)
    /\ LET task == tasks[t]
           result_location ==
               default_location(task.table_info.account_id, task.table_info.region)
       IN  \E created \in { "200", "error" }, versioned \in { "200", "error" } :
             LET requests ==
                     IF created = "200"
                     THEN <<Sent("s3.create_bucket", result_location, created),
                            Sent("s3.put_bucket_versioning", result_location, versioned)>>
                          \o IF versioned = "200"
                             THEN <<Sent("s3.put_bucket_lifecycle_configuration",
                                         result_location, "caught")>>
                             ELSE <<>>
                     ELSE <<Sent("s3.create_bucket", result_location, created)>>
                 asked == [task EXCEPT !.sent = @ \o requests]
             IN  /\ tasks' = [tasks EXCEPT ![t] =
                                IF created = "200" /\ versioned = "200"
                                THEN [asked EXCEPT !.pc = "configure_workgroup"]
                                ELSE EnsureFailed(asked)]
                 /\ world' = IF created = "200"
                             THEN [world EXCEPT
                                     !.buckets = @ \cup { result_location },
                                     !.effects = @ (+) Effect("s3.create_bucket", result_location)]
                             ELSE world
    /\ Yield(t, "statement")
    /\ UNCHANGED <<instance, connection, execution, allow_write, aws_region, engines, pc,
                   call, gate, body, backend, outcome>>

\* _configure_workgroup_result_location, every exception of which is caught,
\* and the two assignments that memoize the location.
ConfigureWorkgroup(t) ==
    /\ tasks[t].pc = "configure_workgroup"
    /\ Scheduled(t)
    /\ LET task == tasks[t]
           result_location ==
               default_location(task.table_info.account_id, task.table_info.region)
       IN  \E got \in { "200", "error" }, updated \in { "200", "error", "not_sent" } :
             /\ (updated = "not_sent") <=>
                    (got = "error" \/ world.workgroup = Some(result_location))
             /\ tasks' = [tasks EXCEPT ![t] =
                    [task EXCEPT
                        !.pc = "lookup",
                        !.result_location = Some(result_location),
                        !.sent = @ \o <<Sent("athena.get_work_group", result_location, got)>>
                                   \o IF updated = "not_sent"
                                      THEN <<>>
                                      ELSE <<Sent("athena.update_work_group",
                                                  result_location, updated)>>]]
             /\ world' = IF updated = "200"
                         THEN [world EXCEPT
                                 !.workgroup = Some(result_location),
                                 !.effects = @ (+) Effect("athena.update_work_group",
                                                          result_location)]
                         ELSE world
             /\ instance' = [instance EXCEPT !.result_location_configured = TRUE,
                                             !.result_location = Some(result_location)]
    /\ Yield(t, "statement")
    /\ UNCHANGED <<connection, execution, allow_write, aws_region, engines, pc, call, gate,
                   body, backend, outcome>>

\* DuckDBEngine._get_connection: self._connection is assigned by
\* duckdb.connect() before the connection is configured.
GetConnection(t) ==
    /\ tasks[t].pc = "get_connection"
    /\ Scheduled(t)
    /\ \E result \in IF instance.connection
                     THEN { "ok" }
                     ELSE { "ok", "connect_error", "configure_error" } :
        /\ instance' = [instance EXCEPT !.connection = result # "connect_error"]
        /\ tasks' = [tasks EXCEPT ![t] =
                        IF result = "ok"
                        THEN [@ EXCEPT !.pc = "lookup"]
                        ELSE [@ EXCEPT !.pc = "returned", !.status = "error"]]
    /\ Yield(t, "statement")
    /\ UNCHANGED <<world, connection, execution, allow_write, aws_region, engines, pc, call,
                   gate, body, backend, outcome>>

\* The table is looked up with s3tables.list_tables; AthenaEngine awaits the
\* analytics manager first.
LookupTable(t) ==
    /\ tasks[t].pc = "lookup"
    /\ Scheduled(t)
    /\ \E found \in BOOLEAN :
        tasks' = [tasks EXCEPT ![t] =
                    IF ~found
                    THEN [@ EXCEPT !.pc = "returned", !.status = "error"]
                    ELSE IF instance.kind = "AthenaEngine"
                    THEN [@ EXCEPT !.pc = "start_query_execution"]
                    ELSE [@ EXCEPT !.pc = "attach"]]
    /\ Yield(t, IF instance.kind = "AthenaEngine" THEN "analytics_manager" ELSE "statement")
    /\ UNCHANGED <<instance, world, connection, execution, allow_write, aws_region, engines,
                   pc, call, gate, body, backend, outcome>>

\* AthenaEngine.execute_query: client.start_query_execution with
\* ResultConfiguration={'OutputLocation': result_location}.
StartQueryExecution(t) ==
    /\ tasks[t].pc = "start_query_execution"
    /\ Scheduled(t)
    /\ \E result \in { "200", "error" } :
        tasks' = [tasks EXCEPT ![t] =
                    [@ EXCEPT !.sent = Append(@, Sent("athena.start_query_execution",
                                                      tasks[t].result_location.value, result)),
                              !.pc = IF result = "200" THEN "get_query_execution" ELSE "returned",
                              !.status = IF result = "200" THEN @ ELSE "error"]]
    /\ Yield(t, "statement")
    /\ UNCHANGED <<instance, world, connection, execution, allow_write, aws_region, engines,
                   pc, call, gate, body, backend, outcome>>

\* AthenaEngine.execute_query: one turn of the polling loop.
GetQueryExecution(t) ==
    /\ tasks[t].pc = "get_query_execution"
    /\ Scheduled(t)
    /\ \E state \in PollStates(instance.kind) :
        /\ ~poll_terminal(instance.kind, state) => tasks[t].polls < MaxPolls
        /\ tasks' = [tasks EXCEPT ![t] =
                        IF poll_terminal(instance.kind, state)
                        THEN [@ EXCEPT !.pc = "returned",
                                       !.status = IF poll_succeeded(instance.kind, state)
                                                  THEN "success" ELSE "error"]
                        ELSE [@ EXCEPT !.polls = @ + 1]]
        /\ Yield(t, IF poll_terminal(instance.kind, state) THEN "statement" ELSE "asyncio.sleep")
    /\ UNCHANGED <<instance, world, connection, execution, allow_write, aws_region, engines,
                   pc, call, gate, body, backend, outcome>>

\* _attach_s3_tables_database, its test of the registry.
AttachCheck(t) ==
    /\ tasks[t].pc = "attach"
    /\ Scheduled(t)
    /\ tasks' = [tasks EXCEPT ![t] =
                    IF needs_attach(instance.s3_tables_attached,
                                    table_bucket_arn(tasks[t].table_info))
                    THEN [@ EXCEPT !.pc = "attach_execute"]
                    ELSE [@ EXCEPT !.pc = "query"]]
    /\ Yield(t, "statement")
    /\ UNCHANGED <<instance, world, connection, execution, allow_write, aws_region, engines,
                   pc, call, gate, body, backend, outcome>>

\* _attach_s3_tables_database: conn.execute(attach_sql), then the registry;
\* an exception is logged and raised again, and execute_query answers
\* status='error'.
AttachExecute(t) ==
    /\ tasks[t].pc = "attach_execute"
    /\ Scheduled(t)
    /\ LET task == tasks[t]
           arn == table_bucket_arn(task.table_info)
           alias == db_name(task.table_info)
       IN  \E result \in duckdb_attach(world.catalog, alias) :
             /\ tasks' = [tasks EXCEPT ![t] =
                    [task EXCEPT !.sent = Append(@, Sent("ATTACH", arn, result)),
                                 !.pc = IF result = "ok" THEN "query" ELSE "returned",
                                 !.status = IF result = "ok" THEN @ ELSE "error"]]
             /\ world' = IF result = "ok"
                         THEN [world EXCEPT
                                 !.catalog = @ \cup { [db_name |-> alias, arn |-> arn] },
                                 !.effects = @ (+) Effect("ATTACH", arn)]
                         ELSE world
             /\ instance' = IF attach_recorded(result)
                            THEN [instance EXCEPT !.s3_tables_attached =
                                                    dict_set(@, arn, alias)]
                            ELSE instance
    /\ Yield(t, "statement")
    /\ UNCHANGED <<connection, execution, allow_write, aws_region, engines, pc, call, gate,
                   body, backend, outcome>>

\* DuckDBEngine.execute_query: the query, rewritten to
\* {db_name}.{namespace}.{table}, is executed on the connection.
ExecuteRewritten(t) ==
    /\ tasks[t].pc = "query"
    /\ Scheduled(t)
    /\ \E result \in { "ok", "error" } :
        tasks' = [tasks EXCEPT ![t] =
                    [@ EXCEPT !.sent = Append(@, Sent("execute", db_name(tasks[t].table_info),
                                                      result)),
                              !.pc = "returned",
                              !.status = IF result = "ok" THEN "success" ELSE "error"]]
    /\ Yield(t, "statement")
    /\ UNCHANGED <<instance, world, connection, execution, allow_write, aws_region, engines,
                   pc, call, gate, body, backend, outcome>>

\* execute_query returns its QueryResult and the task ends.
TaskReturn(t) ==
    /\ tasks[t].pc = "returned"
    /\ Scheduled(t)
    /\ tasks' = [tasks EXCEPT ![t] = IdleTask]
    /\ Yield(t, "return")
    /\ UNCHANGED <<instance, world, connection, execution, allow_write, aws_region, engines,
                   pc, call, gate, body, backend, outcome>>

InitInstance ==
    /\ allow_write = FALSE
    /\ aws_region = FALSE
    /\ engines = {}
    /\ pc = "idle"
    /\ call = NoCall
    /\ gate = "not_run"
    /\ body = NoBody
    /\ backend = <<>>
    /\ outcome = NoOutcome
    /\ connection = FALSE
    /\ execution = NoExecution
    /\ instance \in { NewInstance(kind) : kind \in { "AthenaEngine", "DuckDBEngine" } }
    /\ tasks = [t \in Tasks |-> IdleTask]
    /\ running = NoTask
    /\ world = NewWorld

NextInstance ==
    \/ \E t \in Tasks : BeginCall(t)
    \/ \E t \in Tasks : EnsureResultLocation(t)
    \/ \E t \in Tasks : HeadBucket(t)
    \/ \E t \in Tasks : CreateBucket(t)
    \/ \E t \in Tasks : ConfigureWorkgroup(t)
    \/ \E t \in Tasks : GetConnection(t)
    \/ \E t \in Tasks : LookupTable(t)
    \/ \E t \in Tasks : StartQueryExecution(t)
    \/ \E t \in Tasks : GetQueryExecution(t)
    \/ \E t \in Tasks : AttachCheck(t)
    \/ \E t \in Tasks : AttachExecute(t)
    \/ \E t \in Tasks : ExecuteRewritten(t)
    \/ \E t \in Tasks : TaskReturn(t)

SpecInstance == InitInstance /\ [][NextInstance]_vars

----------------------------------------------------------------------------
(* The vocabulary of the properties, stated on the SQL text as given: its  *)
(* items, not what the code computes from them.                            *)

EqualsIgnoringCase(a, b) ==
    /\ Len(a) = Len(b)
    /\ \A j \in 1..Len(a) : UpperChar(a[j]) = UpperChar(b[j])

WRITE ==
    { <<"I","N","S","E","R","T">>, <<"U","P","D","A","T","E">>, <<"D","E","L","E","T","E">>,
      <<"C","R","E","A","T","E">>, <<"A","L","T","E","R">>, <<"D","R","O","P">>,
      <<"T","R","U","N","C","A","T","E">>, <<"M","E","R","G","E">>,
      <<"R","E","P","L","A","C","E">>, <<"V","A","C","U","U","M">>, <<"L","O","A","D">>,
      <<"C","O","P","Y">>, <<"W","R","I","T","E">>, <<"U","P","S","E","R","T">> }

DESTRUCTIVE ==
    { <<"D","R","O","P">>, <<"T","R","U","N","C","A","T","E">>, <<"D","E","L","E","T","E">>,
      <<"M","E","R","G","E">>, <<"R","E","P","L","A","C","E">>, <<"V","A","C","U","U","M">> }

\* The keywords of K that are a whole non-whitespace top-level token of sql.
KeywordTokens(sql, K) ==
    { k \in K : \E i \in 1..Len(sql) :
                    ~sql[i].is_whitespace /\ EqualsIgnoringCase(sql[i].value, k) }

\* Some token of sql holds a WRITE keyword without being one.
KeywordInsideToken(sql) ==
    \E i \in 1..Len(sql) : \E k \in WRITE :
        /\ ~EqualsIgnoringCase(sql[i].value, k)
        /\ \E j \in 0..(Len(sql[i].value) - Len(k)) :
               EqualsIgnoringCase(SubSeq(sql[i].value, j + 1, j + Len(k)), k)

DropTableLogs ==
    << Token(<<"D","R","O","P">>), Token(<<"T","A","B","L","E">>), Token(<<"l","o","g","s">>) >>

ReadOnlyCall == call.op \in { "query_database", "query_database_resource" }

ReadWriteCall == call.op \in { "modify_database", "modify_database_resource" }

\* The backend requests that carry the caller's SQL.
CallerSubmissions == { i \in 1..Len(backend) : backend[i].by = "execute_query" }

----------------------------------------------------------------------------
(* C1: validate_read_only_query raises ValueError for every query one of   *)
(* whose statements has a non-whitespace top-level token equal, ignoring   *)
(* letter case, to a WRITE keyword: whatever the case of the keyword, and  *)
(* in whichever statement of a multi-statement query the token stands.     *)
C1_WriteTokenRejected ==
    (pc = "done" /\ call.op = "validate_read_only_query" /\ KeywordTokens(call.sql, WRITE) # {})
        => (outcome.kind = "raised" /\ outcome.exc = "ValueError")

\* A rejected two-statement query whose first statement is harmless and whose
\* second holds the keyword in lower case.
C1_Witness ==
    /\ pc = "done"
    /\ call.op = "validate_read_only_query"
    /\ call.sql = << Token(<<"l","o","g","s">>), Semicolon, Token(<<"i","n","s","e","r","t">>) >>
    /\ outcome.kind = "raised"

(* C2: through the read-only entry points, the caller's SQL reaches        *)
(* engine.execute_query only after validate_read_only_query returned True  *)
(* for it, and never once the gate rejected it.                            *)
C2_RejectedNeverSubmitted ==
    ReadOnlyCall =>
        /\ CallerSubmissions # {} =>
              /\ gate = "accepted"
              /\ KeywordTokens(call.sql, WRITE) = {}
              /\ \A i \in CallerSubmissions : backend[i].sql = VersionComment \o call.sql
        /\ gate = "rejected" => CallerSubmissions = {}

\* A read-only call that the gate has rejected, after a successful probe.
C2_Witness ==
    /\ call.op = "query_database_resource"
    /\ call.sql = DropTableLogs
    /\ pc = "done"
    /\ gate = "rejected"
    /\ Len(backend) = 1
    /\ outcome.kind = "raised"

(* C3: the policy check comes before any backend is contacted: while the   *)
(* query of a read-only call is unclassified no backend request has been   *)
(* made, the connection probe included, and a rejected query has caused    *)
(* none.                                                                   *)
C3_NoBackendBeforeClassification ==
    ReadOnlyCall => ((gate = "not_run" \/ gate = "rejected") => backend = <<>>)

(* C4: no entry point hands SQL to an engine adapter without first         *)
(* classifying it: every submission of the caller's SQL, by the legacy     *)
(* engine or by an adapter the manager selected, follows a run of the gate.*)
C4_EveryEntryPointGated ==
    (\E i \in 1..Len(backend) :
        backend[i].by = "execute_query" \/ backend[i].api = "engine.execute_query")
        => gate # "not_run"

(* C5: in read-write mode a query with a DESTRUCTIVE keyword   *)
(* is rejected before execution, and a query whose write keywords are all  *)
(* outside DESTRUCTIVE is accepted, by modify_database_resource and by the *)
(* QueryRequest validator alike.                                           *)
C5_DestructiveRejected ==
    /\ (ReadWriteCall /\ KeywordTokens(call.sql, DESTRUCTIVE) # {}) => CallerSubmissions = {}
    /\ (call.op = "QueryRequest" /\ pc = "done" /\ call.sql # <<>>) =>
          IF KeywordTokens(call.sql, DESTRUCTIVE) # {}
          THEN outcome.kind = "raised"
          ELSE outcome.kind = "returned"

(* C6: a query whose tokens hold a WRITE keyword only inside an identifier *)
(* (insertion_logs), never as a whole top-level token, passes the          *)
(* read-only gate: validate_read_only_query returns True.                  *)
C6_NoSubstringCollision ==
    (/\ pc = "done"
     /\ call.op = "validate_read_only_query"
     /\ KeywordTokens(call.sql, WRITE) = {}
     /\ KeywordInsideToken(call.sql))
        => outcome = Returned([tag |-> "True"])

\* 'TABLE insertion_logs' was accepted.
C6_Witness ==
    /\ pc = "done"
    /\ call.op = "validate_read_only_query"
    /\ call.sql = << Token(<<"T","A","B","L","E">>), Whitespace,
                     Token(<<"i","n","s","e","r","t","i","o","n","_","l","o","g","s">>) >>
    /\ outcome.kind = "returned"

C8_SwitchState ==
    /\ pc = "boot" => ~allow_write
    /\ (call.op \in { "modify_database", "create_table_bucket" } /\ pc # "wrapper") =>
          IF allow_write
          THEN /\ body.runs = 1
               /\ body.args = call
               /\ pc = "done" => (outcome.kind # "none" /\ outcome = body.result)
          ELSE /\ pc = "done"
               /\ outcome = Raised("ValueError",
                     Message("Operation not permitted: Server is configured in read-only mode", {}))
               /\ body.runs = 0
               /\ backend = <<>>

C8_WriteSwitch ==
    /\ []C8_SwitchState
    /\ [][allow_write' # allow_write => pc = "boot"]_vars

\* create_table_bucket was refused with the switch off.
C8_Witness ==
    /\ call.op = "create_table_bucket"
    /\ ~allow_write
    /\ pc = "done"
    /\ outcome.kind = "raised"
    /\ body.runs = 0

\* The call failed on the policy gate or on the missing region.
PolicyOrRegionFailure ==
    /\ call.op \in DatabaseOps
    /\ pc = "done"
    /\ gate = "rejected" \/ (~aws_region /\ backend = <<>> /\ outcome.message.text # ReadOnlyModeText)

(* C9, as claimed: when the gate rejects the query or the region is        *)
(* missing, the entry point the caller invoked raises the error.           *)
C9_ErrorsPropagate ==
    PolicyOrRegionFailure => outcome.kind = "raised"

(* C9, amended: the resource functions raise the error; the tools          *)
(* query_database and modify_database catch it in their body and return    *)
(* {'status': 'error', 'error': str(e)}.                                   *)
C9_ToolsReturnErrorDict ==
    PolicyOrRegionFailure =>
        IF call.op \in { "query_database_resource", "modify_database_resource" }
        THEN outcome.kind = "raised" /\ outcome.exc = "ValueError"
        ELSE /\ outcome.kind = "returned"
             /\ outcome.value.tag = "dict"
             /\ outcome.value.status = "error"
             /\ outcome.value.error.text \in
                   { "Write operations are not allowed in read-only queries",
                     "AWS_REGION environment variable must be set" }

\* query_database returned an error dict for a rejected query.
C9_Witness ==
    /\ call.op = "query_database"
    /\ call.sql = DropTableLogs
    /\ gate = "rejected"
    /\ pc = "done"
    /\ outcome.kind = "returned"

\* The ARN in progress has a well-formed resource as its sixth segment.
ArnResourceWellFormed ==
    /\ Len(call.segs) >= 6
    /\ Len(call.res) = 4
    /\ call.res[1] = <<"b","u","c","k","e","t">>
    /\ call.res[3] = <<"t","a","b","l","e">>

(* C10: parse_table_arn accepts exactly the strings of six ':'-separated   *)
(* segments whose last is bucket/B/table/T and returns the fourth segment  *)
(* as region, the fifth as account, B and T; for every other string (fewer *)
(* segments, segments after the resource, a resource of another shape) it  *)
(* raises ValueError with a non-empty message.                             *)
C10_ExactlySixSegments ==
    (pc = "done" /\ call.op = "parse_table_arn") =>
        IF ArnResourceWellFormed /\ Len(call.segs) = 6
        THEN outcome = Returned([tag |-> "dict",
                                 region |-> call.segs[4],
                                 account_id |-> call.segs[5],
                                 bucket_name |-> call.res[2],
                                 table_name |-> call.res[4]])
        ELSE /\ outcome.kind = "raised"
             /\ outcome.exc = "ValueError"
             /\ outcome.message.text # ""

----------------------------------------------------------------------------
(* Engine selection.                                                       *)

\* The text of sql holds k, in any letter case and anywhere.
TextHolds(sql, k) ==
    \E j \in 0..(Len(sql_text(sql)) - Len(k)) :
        EqualsIgnoringCase(SubSeq(sql_text(sql), j + 1, j + Len(k)), k)

MARK_JOIN == <<"J","O","I","N">>
MARK_GROUP_BY == <<"G","R","O","U","P"," ","B","Y">>
MARK_WINDOW == <<"W","I","N","D","O","W">>
MARK_WITH == <<"W","I","T","H">>

\* A call of EngineManager.execute_query is over.
ManagerDone == pc = "done" /\ call.op = "EngineManager.execute_query"

\* The call handed its SQL to the adapter of kind e, and to no other.
SelectedEngine(e) == Len(backend) = 1 /\ backend[1].by = e

(* C12: an explicit preference that is registered is honoured whatever the *)
(* SQL text and whatever else is registered: the query goes to the         *)
(* preferred engine and the heuristics have no say.                        *)
C12_PreferenceHonoured ==
    (ManagerDone /\ call.preference # "auto" /\ call.preference \in engines)
        => SelectedEngine(call.preference)

\* A query with a join went to DuckDB, the preference, with Athena registered.
C12_Witness ==
    /\ ManagerDone
    /\ call.preference = "duckdb"
    /\ "athena" \in engines
    /\ TextHolds(call.sql, MARK_JOIN)
    /\ SelectedEngine("duckdb")

(* C13: without a preference and with DuckDB registered, every query of    *)
(* fewer than 500 characters that holds neither JOIN nor GROUP BY, in any  *)
(* letter case, goes to DuckDB, whatever else is registered.               *)
C13_ShortSimpleToDuckDB ==
    (/\ ManagerDone
     /\ call.preference = "auto"
     /\ "duckdb" \in engines
     /\ Len(sql_text(call.sql)) < 500
     /\ ~TextHolds(call.sql, MARK_JOIN)
     /\ ~TextHolds(call.sql, MARK_GROUP_BY))
        => SelectedEngine("duckdb")

\* A short query with a CTE marker went to DuckDB although Athena is registered.
C13_Witness ==
    /\ ManagerDone
    /\ call.preference = "auto"
    /\ engines = { "duckdb", "athena", "spark" }
    /\ TextHolds(call.sql, MARK_WITH)
    /\ Len(sql_text(call.sql)) < 500
    /\ SelectedEngine("duckdb")

\* The query holds one of the four markers of an analytical query.
HoldsMarker == \E k \in { MARK_JOIN, MARK_GROUP_BY, MARK_WINDOW, MARK_WITH } : TextHolds(call.sql, k)

(* C14, as claimed: without a preference and with Athena registered, every *)
(* query that holds JOIN, GROUP BY, WINDOW or WITH goes to Athena, whether *)
(* or not DuckDB is registered too.                                        *)
C14_MarkersToAthena ==
    (ManagerDone /\ call.preference = "auto" /\ "athena" \in engines /\ HoldsMarker)
        => SelectedEngine("athena")

(* C14, amended: without a preference and with Athena registered, a query  *)
(* that holds JOIN or GROUP BY goes to Athena whether or not DuckDB is     *)
(* registered; a query whose only markers are WINDOW or WITH goes to       *)
(* Athena when DuckDB is not registered or the query has 500 characters or *)
(* more, and to DuckDB otherwise.                                          *)
C14_MarkersAfterSimpleRule ==
    (ManagerDone /\ call.preference = "auto" /\ "athena" \in engines /\ HoldsMarker)
        => IF /\ ~TextHolds(call.sql, MARK_JOIN)
              /\ ~TextHolds(call.sql, MARK_GROUP_BY)
              /\ Len(sql_text(call.sql)) < 500
              /\ "duckdb" \in engines
           THEN SelectedEngine("duckdb")
           ELSE SelectedEngine("athena")

\* A query of more than 500 characters with a CTE marker went to Athena with
\* DuckDB registered.
C14_Witness ==
    /\ ManagerDone
    /\ call.preference = "auto"
    /\ "duckdb" \in engines
    /\ TextHolds(call.sql, MARK_WITH)
    /\ ~TextHolds(call.sql, MARK_JOIN)
    /\ Len(sql_text(call.sql)) >= 500
    /\ SelectedEngine("athena")

(* C15: without a preference and with Athena registered, every query that  *)
(* holds JOIN in any letter case goes to Athena, whatever its length and   *)
(* whether or not DuckDB is registered.                                    *)
C15_JoinToAthena ==
    (ManagerDone /\ call.preference = "auto" /\ "athena" \in engines
                 /\ TextHolds(call.sql, MARK_JOIN))
        => SelectedEngine("athena")

\* A lower-case join in a short query went to Athena with DuckDB registered.
C15_Witness ==
    /\ ManagerDone
    /\ call.preference = "auto"
    /\ "duckdb" \in engines
    /\ call.sql = << Token(<<"j","o","i","n">>) >>
    /\ SelectedEngine("athena")

(* C16: EngineManager.execute_query never raises: for every registry, the  *)
(* empty one included, every preference and every behaviour of the backend *)
(* it returns a QueryResult.                                               *)
C16_ManagerNeverRaises ==
    ManagerDone => (outcome.kind = "returned" /\ outcome.value.tag = "QueryResult")

\* The manager exists: its constructor has returned.
Constructed == pc # "boot"

\* A call of test_engines has returned.
TestEnginesDone == pc = "done" /\ call.op = "EngineManager.test_engines"

(* C26: the engine registry is fixed once the EngineManager is             *)
(* constructed: no later step changes it; its keys are among DUCKDB,       *)
(* ATHENA and SPARK; an engine whose construction raised is absent and     *)
(* stays absent; SPARK is there only if EMR_SERVERLESS_APPLICATION_ID was  *)
(* set when the manager was constructed; and test_engines returns a map    *)
(* whose keys are exactly the registered kinds.                            *)
C26_RegistryFixed ==
    /\ [](Constructed =>
            /\ engines \subseteq EngineKinds
            /\ engines \cap world.raised = {}
            /\ "spark" \in engines => world.getenv_at_construction)
    /\ [][Constructed => engines' = engines]_vars
    /\ [](TestEnginesDone =>
            /\ outcome.kind = "returned"
            /\ DOMAIN outcome.value.results = engines)

\* test_engines answered for DuckDB alone: Athena's construction raised, and
\* the application id was set only after the manager was constructed.
C26_Witness ==
    /\ TestEnginesDone
    /\ engines = { "duckdb" }
    /\ "athena" \in world.raised
    /\ world.application_id /\ ~world.getenv_at_construction

(* C27: with a non-empty registry the query always goes to a registered    *)
(* engine: a preference for a kind that is not registered (GLUE, or a      *)
(* kind whose engine is absent) gives way to the heuristic choice, and     *)
(* execute_query never answers 'Engine ... is not available'.              *)
C27_SelectedIsRegistered ==
    (ManagerDone /\ engines # {})
        => /\ outcome.kind = "returned"
           /\ outcome.value # EngineNotAvailable
           /\ Len(backend) = 1
           /\ backend[1].by \in engines

\* A preference for GLUE, and one for an absent Athena, each ended on DuckDB.
C27_Witness ==
    /\ ManagerDone
    /\ engines = { "duckdb", "spark" }
    /\ call.preference \in { "glue", "athena" }
    /\ SelectedEngine("duckdb")

----------------------------------------------------------------------------
(* The adapters.                                                           *)

\* The call in progress is an adapter's and has ended in an error: a
\* QueryResult with status='error', or an exception from the legacy engine.
AdapterError ==
    IF call.op = LegacyEngine
    THEN outcome.kind = "raised"
    ELSE outcome.kind = "returned" /\ outcome.value.status = "error"

\* The call in progress has ended in a result with columns and rows.
AdapterSuccess ==
    /\ outcome.kind = "returned"
    /\ call.op = LegacyEngine \/ outcome.value.status = "success"

(* C11: an adapter given a table ARN that parse_table_arn rejects has made *)
(* no backend call by the time it fails: no request to S3, Athena, EMR or  *)
(* S3 Tables, no DuckDB connection, extension or secret.                   *)
C11_MalformedArnBeforeBackend ==
    (pc = "done" /\ call.op \in ArnAdapters /\ parse_table_arn(call.arn).kind = "raised")
        => backend = <<>>

IsStart(i) ==
    /\ backend[i].api \in { "athena.start_query_execution", "emr-serverless.start_job_run" }
    /\ backend[i].result = "ok"

IsPoll(i) == backend[i].api \in { "athena.get_query_execution", "emr-serverless.get_job_run" }

IsFetch(i) == backend[i].api = "athena.get_query_results"

AsyncAdapters == { "athena.AthenaEngine", "AthenaEngine", "EMRServerlessEngine" }

(* C17: in the asynchronous adapters an execution is started, polled while *)
(* it runs and left alone once a poll found it SUCCEEDED, FAILED or        *)
(* CANCELLED: the loop goes on after a poll that found it running, the     *)
(* results are fetched only right after a poll that found success, and a   *)
(* poll that found FAILED or CANCELLED ends the call in an error, never in *)
(* data.                                                                   *)
C17_PollThenFetch ==
    call.op \in AsyncAdapters =>
        /\ \A i \in 1..Len(backend) :
            /\ IsPoll(i) =>
                  /\ i > 1
                  /\ IsStart(i - 1) \/ (IsPoll(i - 1) /\ backend[i - 1].result = "RUNNING")
            /\ (IsPoll(i) /\ backend[i].result = "RUNNING") =>
                  IF i = Len(backend) THEN pc = "adapter_poll" ELSE IsPoll(i + 1)
            /\ IsFetch(i) =>
                  /\ i > 1
                  /\ IsPoll(i - 1)
                  /\ backend[i - 1].result = "SUCCEEDED"
            /\ (IsPoll(i) /\ backend[i].result \in { "FAILED", "CANCELLED" }) =>
                  /\ i = Len(backend)
                  /\ pc = "done"
                  /\ AdapterError
        /\ (pc = "done" /\ AdapterSuccess) =>
              \E i \in 1..Len(backend) :
                  IsPoll(i) /\ backend[i].result \in { "SUCCEEDED", "SUCCESS" }

\* AthenaEngine found the execution running, then SUCCEEDED, and fetched.
C17_Witness ==
    /\ call.op = "AthenaEngine"
    /\ pc = "done"
    /\ AdapterSuccess
    /\ Len(backend) = 8
    /\ backend[6].result = "RUNNING"
    /\ backend[7].result = "SUCCEEDED"
    /\ IsFetch(8)

\* A cell of the backend's result as a normalised row carries it: Athena's
\* cell without a value as the empty string, DuckDB's value as it is.
CellText(cell) == IF cell = NoVarChar /\ call.op # "DuckDBEngine" THEN "" ELSE cell

\* N and M: the columns of the backend's result and its data rows.
NativeColumns == execution.native.ColumnInfo

NativeData == IF execution.native.Rows = <<>> THEN <<>> ELSE Tail(execution.native.Rows)

\* The adapter fetched a successful result from the backend.
FetchedResult == pc = "done" /\ execution.fetched

\* The columns and the rows of the result the adapter returned.
ResultColumns ==
    IF call.op = LegacyEngine THEN Some(outcome.value.columns)
    ELSE outcome.value.result_schema.value.columns

ResultRows == IF call.op = LegacyEngine THEN outcome.value.rows ELSE outcome.value.data.value

\* The row the adapter returned has exactly one entry for each column, in the
\* order of the columns: the cells of the native row, as far as it has them.
RowKeepsCells(row, native_row) ==
    LET N == Len(NativeColumns)
        held == { i \in 1..N : i <= Len(native_row) }
    IN  IF call.op = LegacyEngine
        THEN /\ Len(row) = N
             /\ \A i \in held : row[i] = CellText(native_row[i])
        ELSE /\ Cardinality(DOMAIN row) = N
             /\ \A i \in held : row[NativeColumns[i]] = CellText(native_row[i])

(* C18: a successful backend result of N columns and M data rows is        *)
(* normalised to N columns and M rows of exactly N entries each, in column *)
(* order, by every adapter, also when names of columns repeat and whatever *)
(* the number of cells of a native row.                                    *)
C18_NormalizedShape ==
    FetchedResult =>
        /\ AdapterSuccess
        /\ ResultColumns = Some(NativeColumns)
        /\ Len(ResultRows) = Len(NativeData)
        /\ \A r \in 1..Len(ResultRows) : RowKeepsCells(ResultRows[r], NativeData[r])

(* C19: in every QueryResult of the engine layer, on success rows_returned *)
(* is the number of rows in data; on error data and rows_returned are      *)
(* absent and message is a non-empty string.                               *)
C19_QueryResultInvariant ==
    (outcome.kind = "returned" /\ outcome.value.tag = "QueryResult") =>
        IF outcome.value.status = "success"
        THEN /\ outcome.value.rows_returned.present
             /\ outcome.value.data.present
             /\ outcome.value.rows_returned.value = Len(outcome.value.data.value)
        ELSE /\ ~outcome.value.data.present
             /\ ~outcome.value.rows_returned.present
             /\ outcome.value.message.present
             /\ outcome.value.message.value.text # ""

\* AthenaEngine returned two rows.
C19_Witness ==
    /\ call.op = "AthenaEngine"
    /\ pc = "done"
    /\ outcome.kind = "returned"
    /\ outcome.value.status = "success"
    /\ outcome.value.rows_returned = Some(2)
    /\ Len(execution.native.Rows) = 3

(* C20: a successful result without data rows is normalised to no rows and *)
(* the columns of the backend's header; the columns are empty only when    *)
(* the backend reported no column, not when it reported columns and no row *)
(* list.                                                                   *)
C20_EmptyResultKeepsHeader ==
    (FetchedResult /\ NativeData = <<>>) =>
        /\ AdapterSuccess
        /\ ResultRows = <<>>
        /\ ResultColumns = Some(NativeColumns)

----------------------------------------------------------------------------
(* Connectivity.                                                           *)

\* The call in progress ended in the exception exc with the text, as the
\* function raised it or as the tool above it reported it.
EndedIn(exc, text) ==
    /\ pc = "done"
    /\ IF outcome.kind = "raised"
       THEN outcome.exc = exc /\ outcome.message.text = text
       ELSE /\ outcome.value.tag = "dict"
            /\ outcome.value.status = "error"
            /\ outcome.value.error.text = text

SentBy(who) == { i \in 1..Len(backend) : backend[i].by = who }

(* C21: when the probe of test_connection fails, in whatever way, the      *)
(* request ends in ConnectionError('Failed to connect to Athena') and the  *)
(* caller's SQL is never executed; the caller's SQL is executed only after *)
(* a probe that succeeded, and its failure is reported as an execution     *)
(* failure, not as a ConnectionError.                                      *)
C21_ConnectivityDistinct ==
    /\ \A i \in SentBy("test_connection") :
          backend[i].result # "SUCCEEDED" =>
              /\ i = Len(backend)
              /\ EndedIn("ConnectionError", "Failed to connect to Athena")
    /\ \A i \in SentBy("execute_query") :
          /\ i > 1
          /\ backend[i - 1].by = "test_connection"
          /\ backend[i - 1].result = "SUCCEEDED"
          /\ backend[i].result # "SUCCEEDED" =>
                EndedIn("Exception", "Error executing query: {e}")

\* The probe's query failed on Athena and the resource function raised
\* ConnectionError without a second request.
C21_Witness ==
    /\ call.op = "query_database_resource"
    /\ pc = "done"
    /\ Len(backend) = 1
    /\ backend[1].by = "test_connection"
    /\ backend[1].result = "FAILED"
    /\ outcome.kind = "raised"
    /\ outcome.exc = "ConnectionError"

----------------------------------------------------------------------------
(* Polling.                                                                *)

\* The status polls of the execution in progress, and those of them that
\* found a state that is not terminal.
StatusPolls == { i \in 1..Len(backend) : IsPoll(i) /\ backend[i].result # "request_failed" }

WaitingPolls == { i \in StatusPolls : backend[i].result = "RUNNING" }

\* The seconds between two polls that the specification names.
SecondsPerWait == IF call.op = "EMRServerlessEngine" THEN 10 ELSE 1

\* The poll loop of the call in progress has been left.
LoopLeft == pc \in { "adapter_fetch", "done" } /\ execution.state \notin { "none", "SUBMITTED" }

(* C22: an execution that the backend reports as running k times and then  *)
(* as terminal is polled exactly k + 1 times, with exactly k waits of one  *)
(* second (Athena) or ten seconds (EMR Serverless), and the loop is then   *)
(* left; while the backend has reported no terminal state the loop is not  *)
(* left, however often it has been polled.                                 *)
C22_PollsAndSleeps ==
    call.op \in AsyncAdapters =>
        /\ execution.slept = SecondsPerWait * Cardinality(WaitingPolls)
        /\ (StatusPolls # {} /\ StatusPolls = WaitingPolls /\ IsPoll(Len(backend))
              /\ backend[Len(backend)].result = "RUNNING") => pc = "adapter_poll"
        /\ (LoopLeft /\ execution.state # "RUNNING") =>
              /\ Cardinality(StatusPolls) = Cardinality(WaitingPolls) + 1
              /\ \A i \in WaitingPolls : i + 1 \in StatusPolls

\* EMR Serverless reported RUNNING twice, then SUCCESS: three polls, twenty
\* seconds.
C22_Witness ==
    /\ call.op = "EMRServerlessEngine"
    /\ pc = "done"
    /\ execution.state = "SUCCESS"
    /\ Cardinality(StatusPolls) = 3
    /\ execution.slept = 20

----------------------------------------------------------------------------
(* EMR Serverless configuration.                                           *)

ConfigurationTexts ==
    { "EMR Serverless application ID not configured",
      "EMR_SERVERLESS_JOB_ROLE_ARN environment variable not set" }

\* The EMR Serverless call in progress failed on its configuration.
FailedOnConfiguration ==
    /\ call.op = "EMRServerlessEngine"
    /\ pc = "done"
    /\ outcome.kind = "returned"
    /\ outcome.value.status = "error"
    /\ outcome.value.message.value.args \cap ConfigurationTexts # {}

(* C30: an EMR Serverless call that fails because the application ID or    *)
(* the job role is not configured has created no bucket, uploaded no       *)
(* script and started no job run.                                          *)
C30_ConfigurationFailureHasNoEffect ==
    FailedOnConfiguration =>
        \A i \in 1..Len(backend) :
            backend[i].api \notin
                { "s3.create_bucket", "s3.put_object", "emr-serverless.start_job_run" }

----------------------------------------------------------------------------
(* The shared adapter: memo and registry.                                  *)

\* The requests _ensure_result_location and its helper make.
EnsureApis ==
    { "s3.head_bucket", "s3.create_bucket", "s3.put_bucket_versioning",
      "s3.put_bucket_lifecycle_configuration", "athena.get_work_group",
      "athena.update_work_group" }

\* The requests task t makes in the step at hand.
NewRequests(t) ==
    { tasks'[t].sent[i] : i \in (Len(tasks[t].sent) + 1)..Len(tasks'[t].sent) }

\* The default results location of the account and region of t's own ARN.
OwnLocation(t) == default_location(tasks[t].table_info.account_id, tasks[t].table_info.region)

\* The table-bucket ARN of t's own table ARN.
OwnBucket(t) == table_bucket_arn(tasks[t].table_info)

\* In this step t's _ensure_result_location ends in its exception handler.
EnsureRaises(t) ==
    /\ tasks[t].pc \in { "head_bucket", "create_bucket" }
    /\ tasks'[t].pc = "lookup"

\* In this step t's _ensure_result_location returns from its `try:`.
EnsureCompletes(t) ==
    /\ tasks[t].pc = "configure_workgroup"
    /\ tasks'[t].pc = "lookup"

(* C23: _ensure_result_location creates the bucket only if it is absent    *)
(* and memoizes its success: create_bucket is sent only directly after a   *)
(* head_bucket that failed with code 404; once a call has completed        *)
(* without exception the flag and the location stay set, and every call    *)
(* takes the stored location with no head_bucket, create_bucket,           *)
(* get_work_group or update_work_group; a call that ends in the exception  *)
(* handler leaves the instance as it was, flag unset, and takes the        *)
(* default location, so that the next call asks again.                     *)
C23_CreateIfAbsentMemoized ==
    /\ [](\A t \in Tasks : \A i \in 1..Len(tasks[t].sent) :
            tasks[t].sent[i].api = "s3.create_bucket"
                => /\ i > 1
                   /\ tasks[t].sent[i - 1].api = "s3.head_bucket"
                   /\ tasks[t].sent[i - 1].result = "404")
    /\ [][\A t \in Tasks :
            /\ EnsureCompletes(t)
                => /\ instance'.result_location_configured
                   /\ instance'.result_location = Some(OwnLocation(t))
            /\ instance.result_location_configured
                => /\ instance' = instance
                   /\ \A request \in NewRequests(t) : request.api \notin EnsureApis
                   /\ tasks[t].pc = "ensure_result_location"
                        => /\ tasks'[t].pc = "lookup"
                           /\ tasks'[t].result_location = instance.result_location
            /\ EnsureRaises(t)
                => /\ instance' = instance
                   /\ ~instance.result_location_configured
                   /\ tasks'[t].result_location = Some(OwnLocation(t))
            /\ (tasks[t].pc = "ensure_result_location"
                    /\ ~instance.result_location_configured)
                => tasks'[t].pc \in { "ensure_result_location", "head_bucket" }]_vars

\* A call took the memoized location and sent the query with no other
\* request, after an earlier call had created the bucket.
C23_Witness ==
    \E t \in Tasks :
        /\ instance.kind = "AthenaEngine"
        /\ instance.result_location_configured
        /\ tasks[t].pc = "returned"
        /\ Len(tasks[t].sent) = 1
        /\ tasks[t].sent[1].api = "athena.start_query_execution"
        /\ BagIn([api |-> "s3.create_bucket", arg |-> OwnLocation(t)], world.effects)

(* C28: the OutputLocation sent with every query of AthenaEngine is the    *)
(* default results location of the account and region of that call's own   *)
(* table ARN, whatever calls came before on the instance.                  *)
C28_OutputLocationIsOwn ==
    \A t \in Tasks : \A i \in 1..Len(tasks[t].sent) :
        tasks[t].sent[i].api = "athena.start_query_execution"
            => tasks[t].sent[i].arg = OwnLocation(t)

\* The ATTACH statements t executes in the step at hand.
NewAttach(t) == { request \in NewRequests(t) : request.api = "ATTACH" }

\* The executions of a request that took effect.
Executions(api, arg) == CopiesIn([api |-> api, arg |-> arg], world.effects)

(* C24: DuckDBEngine attaches each bucket at most once per instance. Over  *)
(* every sequence of execute_query calls an ATTACH is executed for a       *)
(* table-bucket ARN only while the ARN is absent from _s3_tables_attached, *)
(* and always when it is absent; an ARN is in the registry only after its  *)
(* ATTACH succeeded; entries are never removed or changed; a failed ATTACH *)
(* leaves the registry as it was and the query returns status=error, so a  *)
(* later query attempts the ATTACH again.                                  *)
C24_AttachOncePerInstance ==
    /\ [](\A arn \in DOMAIN instance.s3_tables_attached :
            Executions("ATTACH", arn) = 1)
    /\ [][\A t \in Tasks :
            /\ \A request \in NewAttach(t) :
                /\ request.arg = OwnBucket(t)
                /\ request.arg \notin DOMAIN instance.s3_tables_attached
                /\ request.result = "ok"
                    => /\ DOMAIN instance'.s3_tables_attached =
                            DOMAIN instance.s3_tables_attached \cup { request.arg }
                       /\ instance'.s3_tables_attached[request.arg] = db_name(tasks[t].table_info)
                /\ request.result # "ok"
                    => /\ instance' = instance
                       /\ tasks'[t].pc = "returned"
                       /\ tasks'[t].status = "error"
            /\ (tasks[t].pc = "attach" /\ tasks'[t].pc # "attach")
                => IF OwnBucket(t) \in DOMAIN instance.s3_tables_attached
                   THEN tasks'[t].pc = "query"
                   ELSE tasks'[t].pc = "attach_execute"
            /\ (tasks[t].pc = "attach_execute" /\ tasks'[t].pc # "attach_execute")
                => NewAttach(t) # {}]_vars
    /\ [][\A arn \in DOMAIN instance.s3_tables_attached :
            /\ arn \in DOMAIN instance'.s3_tables_attached
            /\ instance'.s3_tables_attached[arn] = instance.s3_tables_attached[arn]]_vars

\* A later query against an attached bucket ran with no ATTACH of its own.
C24_Witness ==
    \E t \in Tasks :
        /\ instance.kind = "DuckDBEngine"
        /\ tasks[t].pc = "returned"
        /\ tasks[t].status = "success"
        /\ Len(tasks[t].sent) = 1
        /\ tasks[t].sent[1].api = "execute"
        /\ OwnBucket(t) \in DOMAIN instance.s3_tables_attached

\* The call is between the test of a memo and the write that follows it.
InFirstWrite(t) ==
    tasks[t].pc \in { "head_bucket", "create_bucket", "configure_workgroup", "attach_execute" }

(* C25: the memo and the registry are race-free when one adapter is shared *)
(* by concurrent calls of execute_query. In every interleaving no two      *)
(* calls are between the test of a memo and its write together, and no     *)
(* ATTACH of a bucket, no creation of a results bucket and no update of    *)
(* the workgroup to a location takes effect more than once.                *)
C25_FirstWriteRaceFree ==
    /\ \A t, u \in Tasks : (InFirstWrite(t) /\ InFirstWrite(u)) => t = u
    /\ \A effect \in BagToSet(world.effects) : CopiesIn(effect, world.effects) = 1

\* Two first queries against one bucket are in flight together, both with
\* their query sent; the bucket was created and the workgroup updated once.
C25_Witness ==
    /\ world.calls = Cardinality(Tasks)
    /\ \A t \in Tasks : tasks[t].pc = "get_query_execution"
    /\ \A t, u \in Tasks : tasks[t].table_info = tasks[u].table_info
    /\ \E t \in Tasks :
        /\ Executions("s3.create_bucket", OwnLocation(t)) = 1
        /\ Executions("athena.update_work_group", OwnLocation(t)) = 1

(* C29: the registry of attached databases is injective: two distinct      *)
(* table-bucket ARNs in _s3_tables_attached have distinct aliases, and the *)
(* alias a query is rewritten with denotes, on the connection, the bucket  *)
(* of the query's own table ARN, also for bucket names that differ in '-'  *)
(* and '_' only or that are equal in different regions or accounts.        *)
C29_RegistryInjective ==
    /\ \A arn, other \in DOMAIN instance.s3_tables_attached :
            instance.s3_tables_attached[arn] = instance.s3_tables_attached[other]
                => arn = other
    /\ \A t \in Tasks :
            (tasks[t].pc = "query"
                \/ \E i \in 1..Len(tasks[t].sent) : tasks[t].sent[i].api = "execute")
            => \A database \in world.catalog :
                    database.db_name = db_name(tasks[t].table_info)
                        <=> database.arn = OwnBucket(t)

\* With two buckets attached, the query against a third whose alias is
\* taken ended in an error at its ATTACH.
C29_Witness ==
    \E t \in Tasks :
        /\ tasks[t].pc = "returned"
        /\ tasks[t].status = "error"
        /\ Len(tasks[t].sent) = 1
        /\ tasks[t].sent[1].api = "ATTACH"
        /\ Cardinality(DOMAIN instance.s3_tables_attached) > 1
        /\ \E arn \in DOMAIN instance.s3_tables_attached :
            /\ arn # OwnBucket(t)
            /\ instance.s3_tables_attached[arn] = db_name(tasks[t].table_info)

====
